---- MODULE Spec2Model ----
(***************************************************************************)
(* Legal-document ingestion: the two structural segmenters (PDF text and   *)
(* TEI XML), and the chunker of the ingestion pipeline.                    *)
(*                                                                         *)
(* Strings are sequences of one-character strings, so that strip, lower,   *)
(* find, slicing and the regular expressions of the source are computed    *)
(* character by character.  Offsets into a string are 0-based as in the    *)
(* source; position k of the source is element k+1 of the sequence.        *)
(***************************************************************************)
EXTENDS Integers, Sequences, FiniteSets, TLC

VARIABLES
    fmt,              \* which parser runs: "pdf" | "xml" | "none"
    lines,            \* pdf: text.split('\n')
    paras,            \* xml: root.findall('.//tei:p'), in document order
    i,                \* loop position in lines / paras (1-based, next to visit)
    current_section,  \* pdf: the open section (Some), or Nothing
    current_content,  \* pdf: lines accumulated for the open section
    section_counter,  \* pdf: running counter (written, never read)
    sections,         \* the list being built
    seg_pc,           \* "idle" | "loop" | "done" | "parsed" | "normalized"
    document,         \* the LegalDocument handed to chunk_document
    call,             \* which call of chunk_document is running (1, 2)
    ck_pc,            \* "idle" | "section" | "split" | "defs" | "return" | "done" | "raised"
    sec_i,            \* chunk_document: index of the section being chunked
    def_i,            \* chunk_document: index of the definition being chunked
    chunks,           \* chunk_document: the list being built
    first_chunks,     \* the list the first call returned
    heading,          \* _chunk_section: heading_number, heading_level, parent_heading
    start,            \* _split_text_with_overlap: window start
    chunk_texts,      \* _split_text_with_overlap: the list being built
    wins,             \* history: the windows of the section being split
    log,              \* history: per chunked section, its chunk count and windows
    definitions,      \* parse_document: the Definitions extracted from the sections
    file_paths,       \* batch_ingest: the paths to ingest
    file_i,           \* batch_ingest: index of the path being ingested
    ing_pc,           \* "idle" | "batch" | "done" | "concurrent"
    documents,        \* batch_ingest: the metadata of the documents ingested so far
    errors,           \* batch_ingest: the exceptions caught and printed
    output_dir,       \* the files of the output directory
    workers,          \* concurrent ingest_document calls: position, document, exception
    clauses,          \* the rows of the clauses table
    next_id,          \* the next value of the sequence of clauses.id
    idx_pc,           \* index_chunks: "ready" | "insert"
    idx_i,            \* index_chunks: i of enumerate(chunks, start=1)
    idx_args,         \* index_chunks: document, chunks, embeddings of the call
    idx_log           \* the finished calls of index_chunks: arguments, rows afterwards

seg_vars == <<fmt, lines, paras, i, current_section, current_content,
              section_counter, sections, seg_pc>>

chunk_vars == <<document, call, ck_pc, sec_i, def_i, chunks, first_chunks, heading,
                start, chunk_texts, wins, log>>

index_vars == <<clauses, next_id, idx_pc, idx_i, idx_args, idx_log>>

batch_vars == <<file_paths, file_i, ing_pc, documents, errors, output_dir, workers,
                index_vars>>

ing_vars == <<definitions, batch_vars>>

vars == <<seg_vars, chunk_vars, ing_vars>>

\* Optional values: Nothing is Python's None, Some(v) a present value v
Nothing == <<>>

Some(v) == <<v>>

-----------------------------------------------------------------------------
(* Characters and strings                                                  *)

UpperSeq == <<"A","B","C","D","E","F","G","H","I","J","K","L","M",
              "N","O","P","Q","R","S","T","U","V","W","X","Y","Z">>

LowerSeq == <<"a","b","c","d","e","f","g","h","i","j","k","l","m",
              "n","o","p","q","r","s","t","u","v","w","x","y","z">>

DigitSet == {"0","1","2","3","4","5","6","7","8","9"}

UpperSet == {UpperSeq[k] : k \in 1..26}

LowerSet == {LowerSeq[k] : k \in 1..26}

SpaceSet == {" ", "\n", "\t"}

IsDigit(c) == c \in DigitSet

IsUpper(c) == c \in UpperSet

IsLower(c) == c \in LowerSet

IsAlpha(c) == IsUpper(c) \/ IsLower(c)

IsSpace(c) == c \in SpaceSet

IsWordChar(c) == IsAlpha(c) \/ IsDigit(c) \/ c = "_"

LowerChar(c) == IF IsUpper(c) THEN LowerSeq[CHOOSE k \in 1..26 : UpperSeq[k] = c] ELSE c

UpperChar(c) == IF IsLower(c) THEN UpperSeq[CHOOSE k \in 1..26 : LowerSeq[k] = c] ELSE c

Min(a, b) == IF a < b THEN a ELSE b

Max(a, b) == IF a > b THEN a ELSE b

\* str.lower()
Lower(s) == [k \in 1..Len(s) |-> LowerChar(s[k])]

\* str.title(): a cased character is upper-cased after an uncased one, else lower-cased
Title(s) == [k \in 1..Len(s) |->
               IF k > 1 /\ IsAlpha(s[k-1]) THEN LowerChar(s[k]) ELSE UpperChar(s[k])]

\* s[a:b] for 0 <= a, 0 <= b (Python clamps both ends to len(s))
Slice(s, a, b) == SubSeq(s, a + 1, Min(b, Len(s)))

\* str.strip(): the offsets [from, to) that remain
StripFrom(s) == IF \A k \in 1..Len(s) : IsSpace(s[k]) THEN Len(s)
                ELSE (CHOOSE k \in 1..Len(s) :
                        ~IsSpace(s[k]) /\ \A j \in 1..(k-1) : IsSpace(s[j])) - 1

StripTo(s) == IF \A k \in 1..Len(s) : IsSpace(s[k]) THEN Len(s)
              ELSE CHOOSE k \in 1..Len(s) :
                        ~IsSpace(s[k]) /\ \A j \in (k+1)..Len(s) : IsSpace(s[j])

Strip(s) == Slice(s, StripFrom(s), StripTo(s))

\* `p in s`
Contains(s, p) == \E k \in 0..(Len(s) - Len(p)) : SubSeq(s, k + 1, k + Len(p)) = p

\* str.replace(c, d) for single characters c, d
ReplaceChar(s, c, d) == [k \in 1..Len(s) |-> IF s[k] = c THEN d ELSE s[k]]

\* str.replace(p, '') for a non-empty p: leftmost occurrences, left to right
RECURSIVE RemoveAll(_, _)
RemoveAll(s, p) ==
    IF Len(s) < Len(p) THEN s
    ELSE IF SubSeq(s, 1, Len(p)) = p THEN RemoveAll(SubSeq(s, Len(p) + 1, Len(s)), p)
    ELSE <<s[1]>> \o RemoveAll(Tail(s), p)

\* sep.join(parts)
RECURSIVE Join(_, _)
Join(parts, sep) ==
    IF parts = <<>> THEN <<>>
    ELSE IF Len(parts) = 1 THEN parts[1]
    ELSE parts[1] \o sep \o Join(Tail(parts), sep)

\* length of the longest run of characters of the set cs that starts at element k
Run(s, k, cs) ==
    CHOOSE n \in 0..Max(0, Len(s) - k + 1) :
        /\ \A j \in k..(k + n - 1) : s[j] \in cs
        /\ (k + n > Len(s) \/ s[k + n] \notin cs)

\* length of the longest run of characters other than c that starts at element k
RunNot(s, k, c) ==
    CHOOSE n \in 0..Max(0, Len(s) - k + 1) :
        /\ \A j \in k..(k + n - 1) : s[j] # c
        /\ (k + n > Len(s) \/ s[k + n] = c)

\* element k of s, or "" (no character) past either end
At(s, k) == IF k >= 1 /\ k <= Len(s) THEN s[k] ELSE ""

-----------------------------------------------------------------------------
(* PDF parser: PDFLegalParser                                              *)

\* r'^(\d+)\.\s+([A-Z][^.]+)\.'      "1. SECTION TITLE."
section_pattern_1(line) ==
    LET d == Run(line, 1, DigitSet)
        w == Run(line, d + 2, SpaceSet)
        t == d + 2 + w
        n == RunNot(line, t + 1, ".")
    IN  IF /\ d >= 1 /\ At(line, d + 1) = "."
           /\ w >= 1 /\ IsUpper(At(line, t))
           /\ n >= 1 /\ At(line, t + 1 + n) = "."
        THEN Some([g1 |-> SubSeq(line, 1, d), g2 |-> SubSeq(line, t, t + n)])
        ELSE Nothing

\* r'^(\d+\.\d+)\s+([A-Z][^.]+)'     "1.1 Subsection Title"
section_pattern_2(line) ==
    LET d1 == Run(line, 1, DigitSet)
        d2 == Run(line, d1 + 2, DigitSet)
        e  == d1 + 1 + d2
        w  == Run(line, e + 1, SpaceSet)
        t  == e + 1 + w
        n  == RunNot(line, t + 1, ".")
    IN  IF /\ d1 >= 1 /\ At(line, d1 + 1) = "." /\ d2 >= 1
           /\ w >= 1 /\ IsUpper(At(line, t)) /\ n >= 1
        THEN Some([g1 |-> SubSeq(line, 1, e), g2 |-> SubSeq(line, t, t + n)])
        ELSE Nothing

\* r'^([A-Z]+)\.\s+([A-Z][^.]+)'     "A. Section Title"
section_pattern_3(line) ==
    LET u == Run(line, 1, UpperSet)
        w == Run(line, u + 2, SpaceSet)
        t == u + 2 + w
        n == RunNot(line, t + 1, ".")
    IN  IF /\ u >= 1 /\ At(line, u + 1) = "."
           /\ w >= 1 /\ IsUpper(At(line, t)) /\ n >= 1
        THEN Some([g1 |-> SubSeq(line, 1, u), g2 |-> SubSeq(line, t, t + n)])
        ELSE Nothing

\* for pattern in self.section_patterns: first match wins
section_match(line) ==
    IF section_pattern_1(line) # Nothing THEN section_pattern_1(line)
    ELSE IF section_pattern_2(line) # Nothing THEN section_pattern_2(line)
    ELSE section_pattern_3(line)

W_purchase == <<"p","u","r","c","h","a","s","e">>

W_sale == <<"s","a","l","e">>

W_price == <<"p","r","i","c","e">>

W_payment == <<"p","a","y","m","e","n","t">>

W_closing == <<"c","l","o","s","i","n","g">>

W_condition == <<"c","o","n","d","i","t","i","o","n">>

W_representation == <<"r","e","p","r","e","s","e","n","t","a","t","i","o","n">>

W_warrant == <<"w","a","r","r","a","n","t">>

W_covenant == <<"c","o","v","e","n","a","n","t">>

W_indemnif == <<"i","n","d","e","m","n","i","f">>

W_governing_law == <<"g","o","v","e","r","n","i","n","g"," ","l","a","w">>

W_dispute == <<"d","i","s","p","u","t","e">>

W_arbitration == <<"a","r","b","i","t","r","a","t","i","o","n">>

W_notice == <<"n","o","t","i","c","e">>

W_termination == <<"t","e","r","m","i","n","a","t","i","o","n">>

pdf_classify_clause_type(title) ==
    LET title_lower == Lower(title) IN
    IF Contains(title_lower, W_purchase) \/ Contains(title_lower, W_sale)
        THEN "Purchase and Sale"
    ELSE IF Contains(title_lower, W_price) \/ Contains(title_lower, W_payment)
        THEN "Price"
    ELSE IF Contains(title_lower, W_closing) THEN "Closing"
    ELSE IF Contains(title_lower, W_condition) THEN "Conditions Precedent"
    ELSE IF Contains(title_lower, W_representation) \/ Contains(title_lower, W_warrant)
        THEN "Representations and Warranties"
    ELSE IF Contains(title_lower, W_covenant) THEN "Covenants"
    ELSE IF Contains(title_lower, W_indemnif) THEN "Indemnities"
    ELSE IF Contains(title_lower, W_governing_law) THEN "Governing Law"
    ELSE IF Contains(title_lower, W_dispute) \/ Contains(title_lower, W_arbitration)
        THEN "Dispute Resolution"
    ELSE IF Contains(title_lower, W_notice) THEN "Notices"
    ELSE IF Contains(title_lower, W_termination) THEN "Termination"
    ELSE "Other"

pdf_extract_tags_from_title(title) ==
    LET title_lower == Lower(title) IN
       (IF Contains(title_lower, W_price) THEN <<"pricing">> ELSE <<>>)
    \o (IF Contains(title_lower, W_closing) THEN <<"closing">> ELSE <<>>)
    \o (IF Contains(title_lower, W_condition) THEN <<"conditions">> ELSE <<>>)
    \o (IF Contains(title_lower, W_indemnif) THEN <<"indemnification">> ELSE <<>>)
    \o (IF Contains(title_lower, W_termination) THEN <<"termination">> ELSE <<>>)

\* Section(id=..., title=..., text="", clause_type=..., tags=...) at a heading line.
\* Section.definitions and Section.page_number are left out: nothing reads them.
pdf_new_section(m) ==
    [id          |-> m.g1,
     title       |-> Strip(m.g2),
     text        |-> <<>>,
     clause_type |-> pdf_classify_clause_type(Strip(m.g2)),
     tags        |-> pdf_extract_tags_from_title(Strip(m.g2))]

\* what `if current_section: sections.append(current_section)` appends at a heading
pdf_closed_section(section, content) == section

\* current_section.text = '\n'.join(current_content) at the end of the input
pdf_final_section(section, content) == [section EXCEPT !.text = Join(content, <<"\n">>)]

\* one iteration of `for i, line in enumerate(lines)`
pdf_extract_sections_line ==
    /\ fmt = "pdf" /\ seg_pc = "loop" /\ i <= Len(lines)
    /\ LET line == Strip(lines[i])
           section_match_ == section_match(line)
       IN  IF line = <<>> THEN
               UNCHANGED <<current_section, current_content, section_counter, sections>>
           ELSE IF section_match_ # Nothing THEN
               /\ sections' = IF current_section # Nothing
                              THEN Append(sections,
                                     pdf_closed_section(current_section[1], current_content))
                              ELSE sections
               /\ current_section' = Some(pdf_new_section(section_match_[1]))
               /\ current_content' = <<line>>
               /\ section_counter' = section_counter + 1
           ELSE IF current_section # Nothing THEN
               /\ current_content' = Append(current_content, line)
               /\ UNCHANGED <<current_section, section_counter, sections>>
           ELSE
               UNCHANGED <<current_section, current_content, section_counter, sections>>
    /\ i' = i + 1
    /\ UNCHANGED <<fmt, lines, paras, seg_pc>>
    /\ UNCHANGED chunk_vars
    /\ UNCHANGED ing_vars

\* pdf_extract_sections_return without the flush of the open section
pdf_extract_sections_return_noflush ==
    /\ fmt = "pdf" /\ seg_pc = "loop" /\ i > Len(lines)
    /\ seg_pc' = "done"
    /\ UNCHANGED <<fmt, lines, paras, i, current_section, current_content,
                   section_counter, sections>>
    /\ UNCHANGED chunk_vars
    /\ UNCHANGED ing_vars

\* after the loop: flush the open section and return
pdf_extract_sections_return ==
    /\ fmt = "pdf" /\ seg_pc = "loop" /\ i > Len(lines)
    /\ IF current_section # Nothing THEN
           /\ current_section' =
                  Some(pdf_final_section(current_section[1], current_content))
           /\ sections' = Append(sections,
                                 pdf_final_section(current_section[1], current_content))
       ELSE UNCHANGED <<current_section, sections>>
    /\ seg_pc' = "done"
    /\ UNCHANGED <<fmt, lines, paras, i, current_content, section_counter>>
    /\ UNCHANGED chunk_vars
    /\ UNCHANGED ing_vars

-----------------------------------------------------------------------------
(* XML parser: XMLLegalParser.  A paragraph element is                     *)
(*   [xml_id: Nothing or Some(string), base: string, toc_number: string,   *)
(*    text: string]                                                        *)
(* with base and toc_number '' when the attribute is absent, as            *)
(* elem.get(name, '') reads them, and text the element's text content.     *)

W_rate == <<"r","a","t","e">>

W_delivery == <<"d","e","l","i","v","e","r","y">>

W_term == <<"t","e","r","m">>

W_assignment == <<"a","s","s","i","g","n","m","e","n","t">>

W_audit == <<"a","u","d","i","t">>

W_continuity == <<"c","o","n","t","i","n","u","i","t","y">>

W_service == <<"s","e","r","v","i","c","e">>

W_law == <<"l","a","w">>

W_liquidated_damages ==
    <<"l","i","q","u","i","d","a","t","e","d"," ","d","a","m","a","g","e","s">>

W_curtailment == <<"c","u","r","t","a","i","l","m","e","n","t">>

W_transmission == <<"t","r","a","n","s","m","i","s","s","i","o","n">>

W_Section_ == <<"S","e","c","t","i","o","n"," ">>

W_H_ == <<"H","_">>

xml_classify_clause_type(title, content) ==
    LET title_lower == Lower(title) IN
    IF Contains(title_lower, W_rate) \/ Contains(title_lower, W_price) THEN "Price"
    ELSE IF Contains(title_lower, W_delivery) \/ Contains(title_lower, W_sale)
        THEN "Purchase and Sale"
    ELSE IF Contains(title_lower, W_governing_law) THEN "Governing Law"
    ELSE IF Contains(title_lower, W_notice) THEN "Notices"
    ELSE IF Contains(title_lower, W_term) \/ Contains(title_lower, W_termination)
        THEN "Termination"
    ELSE IF Contains(title_lower, W_assignment) THEN "Miscellaneous"
    ELSE IF Contains(title_lower, W_audit) THEN "Covenants"
    ELSE IF Contains(title_lower, W_continuity) \/ Contains(title_lower, W_service)
        THEN "Covenants"
    ELSE "Other"

xml_extract_tags(content, title) ==
    LET content_lower == Lower(content)
        title_lower == Lower(title)
    IN (IF Contains(title_lower, W_rate) THEN <<"pricing">> ELSE <<>>)
    \o (IF Contains(title_lower, W_delivery) THEN <<"delivery">> ELSE <<>>)
    \o (IF Contains(title_lower, W_law) THEN <<"governing_law">> ELSE <<>>)
    \o (IF Contains(content_lower, W_liquidated_damages)
            THEN <<"liquidated_damages">> ELSE <<>>)
    \o (IF Contains(content_lower, W_curtailment) THEN <<"curtailment">> ELSE <<>>)
    \o (IF Contains(content_lower, W_transmission) THEN <<"transmission">> ELSE <<>>)
    \o (IF Contains(content_lower, W_arbitration) THEN <<"arbitration">> ELSE <<>>)

\* is_header(elem) inside _get_section_content
xml_is_header(elem) ==
    /\ elem.xml_id # Nothing /\ elem.xml_id[1] # <<>>
    /\ (elem.toc_number # <<>> \/ elem.base # <<>>)

\* the paragraphs after element h, up to the next header paragraph
RECURSIVE xml_following_parts(_, _)
xml_following_parts(all_paras, k) ==
    IF k > Len(all_paras) \/ xml_is_header(all_paras[k]) THEN <<>>
    ELSE (IF Strip(all_paras[k].text) # <<>> THEN <<Strip(all_paras[k].text)>> ELSE <<>>)
         \o xml_following_parts(all_paras, k + 1)

xml_get_section_content(all_paras, h) ==
    LET header_elem == all_paras[h]
        header_text == IF header_elem.toc_number # <<>>
                       THEN header_elem.toc_number \o <<" ">> \o Strip(header_elem.text)
                       ELSE Strip(header_elem.text)
    IN  Join(<<header_text>> \o xml_following_parts(all_paras, h + 1), <<" ">>)

\* the element is a heading: `if base_attr or toc_number`
xml_is_section_elem(elem) == elem.toc_number # <<>> \/ elem.base # <<>>

xml_new_section(all_paras, h) ==
    LET elem == all_paras[h]
        section_id == RemoveAll(elem.xml_id[1], W_H_)
        title == IF elem.base # <<>> THEN Title(ReplaceChar(elem.base, "_", " "))
                 ELSE W_Section_ \o elem.toc_number
        content == xml_get_section_content(all_paras, h)
    IN  [id          |-> IF elem.toc_number # <<>> THEN elem.toc_number ELSE section_id,
         title       |-> title,
         text        |-> content,
         clause_type |-> xml_classify_clause_type(title, content),
         tags        |-> xml_extract_tags(content, title)]

\* one iteration over the paragraphs: findall('.//tei:p[@xml:id]') keeps those
\* with an xml:id attribute, the loop body those with base or toc_number
xml_extract_sections_elem ==
    /\ fmt = "xml" /\ seg_pc = "loop" /\ i <= Len(paras)
    /\ sections' = IF paras[i].xml_id # Nothing /\ xml_is_section_elem(paras[i])
                   THEN Append(sections, xml_new_section(paras, i))
                   ELSE sections
    /\ i' = i + 1
    /\ UNCHANGED <<fmt, lines, paras, current_section, current_content,
                   section_counter, seg_pc>>
    /\ UNCHANGED chunk_vars
    /\ UNCHANGED ing_vars

xml_extract_sections_return ==
    /\ fmt = "xml" /\ seg_pc = "loop" /\ i > Len(paras)
    /\ seg_pc' = "done"
    /\ UNCHANGED <<fmt, lines, paras, i, current_section, current_content,
                   section_counter, sections>>
    /\ UNCHANGED chunk_vars
    /\ UNCHANGED ing_vars

-----------------------------------------------------------------------------
(* Chunker: DocumentIngestionPipeline                                      *)

max_chunk_size == 1000

chunk_overlap == 100

\* the literal 100 of text.rfind('.', start + self.max_chunk_size - 100, end)
sentence_lookback == 100

\* str.rfind(c, lo, hi) for 0 <= lo: the last offset in [lo, hi) holding c, or -1
RFind(str, c, lo, hi) ==
    LET found == {k \in lo..(Min(hi, Len(str)) - 1) : str[k + 1] = c}
    IN  IF found = {} THEN -1 ELSE CHOOSE k \in found : \A j \in found : j <= k

\* str.split(c): the pieces between the occurrences of character c
RECURSIVE Split(_, _)
Split(str, c) ==
    IF \A k \in 1..Len(str) : str[k] # c THEN <<str>>
    ELSE LET p == CHOOSE k \in 1..Len(str) :
                      str[k] = c /\ \A j \in 1..(k - 1) : str[j] # c
         IN  <<SubSeq(str, 1, p - 1)>> \o Split(SubSeq(str, p + 1, Len(str)), c)

\* parts[:-1]
AllButLast(parts) == SubSeq(parts, 1, Len(parts) - 1)

\* decimal digits of a natural number, as str(n) / f"{n}" prints it
DigitSeq == <<"0","1","2","3","4","5","6","7","8","9">>

RECURSIVE IntStr(_)
IntStr(n) == IF n < 10 THEN <<DigitSeq[n + 1]>>
             ELSE IntStr(n \div 10) \o <<DigitSeq[(n % 10) + 1]>>

\* after the leading \d+ ending at element e: the end of the longest (?:\.\d+)* run
RECURSIVE DotGroupsEnd(_, _)
DotGroupsEnd(str, e) ==
    IF At(str, e + 1) = "." /\ Run(str, e + 2, DigitSet) >= 1
    THEN DotGroupsEnd(str, e + 1 + Run(str, e + 2, DigitSet))
    ELSE e

\* length of the longest prefix matching \d+(?:\.\d+)+ , or 0 when none does
DottedNumberEnd(str) ==
    LET d0 == Run(str, 1, DigitSet)
    IN  IF d0 >= 1 /\ DotGroupsEnd(str, d0) > d0 THEN DotGroupsEnd(str, d0) ELSE 0

\* re.match(r"^\d+(?:\.\d+)+$", str) for a stripped str
MatchesDottedId(str) == Len(str) > 0 /\ DottedNumberEnd(str) = Len(str)

\* re.match(r"^(\d+(?:\.\d+)+)\b", line): group 1, or Nothing.  When a word
\* character follows the longest match, the match backs off by one ".\d+"
\* group (a "." follows there) if at least one group remains.
MatchHeadingNumber(line) ==
    LET e == DottedNumberEnd(line)
        back == CHOOSE k \in 0..e :
                    /\ At(line, k + 1) = "."
                    /\ \A j \in (k + 2)..e : IsDigit(line[j])
    IN  IF e = 0 THEN Nothing
        ELSE IF ~IsWordChar(At(line, e + 1)) THEN Some(SubSeq(line, 1, e))
        ELSE IF DottedNumberEnd(SubSeq(line, 1, back)) = back /\ back > 0
             THEN Some(SubSeq(line, 1, back))
        ELSE Nothing

\* [l.strip() for l in section_text.splitlines() if l.strip()]
RECURSIVE StrippedNonBlank(_)
StrippedNonBlank(ls) ==
    IF ls = <<>> THEN <<>>
    ELSE (IF Strip(ls[1]) # <<>> THEN <<Strip(ls[1])>> ELSE <<>>)
         \o StrippedNonBlank(Tail(ls))

\* heading_triple with the level counted in dots, not in components
heading_triple_dots(num) ==
    LET parts == Split(num, ".")
        level == Len(parts) - 1
    IN  [heading_number |-> Some(num),
         heading_level  |-> Some(level),
         parent_heading_number |->
             IF level > 1 THEN Some(Join(AllButLast(parts), <<".">>)) ELSE Nothing]

\* (heading_number, level, parent) of a heading number
heading_triple(num) ==
    LET parts == Split(num, ".")
        level == Len(parts)
    IN  [heading_number |-> Some(num),
         heading_level  |-> Some(level),
         parent_heading_number |->
             IF level > 1 THEN Some(Join(AllButLast(parts), <<".">>)) ELSE Nothing]

no_heading ==
    [heading_number |-> Nothing, heading_level |-> Nothing,
     parent_heading_number |-> Nothing]

\* the result of a call: a value, or an exception
Returns(v) == [raised |-> FALSE, value |-> v]

Raises(e) == [raised |-> TRUE, value |-> e]

\* extract_heading_meta without the `if not lines: return None` guard
extract_heading_meta_unguarded(section_text) ==
    LET ls == StrippedNonBlank(Split(section_text, "\n"))
        m1 == MatchHeadingNumber(ls[1])
        m  == IF m1 = Nothing /\ Len(ls) > 1 THEN MatchHeadingNumber(ls[2]) ELSE m1
    IN  IF Len(ls) < 1 THEN Raises("IndexError")
        ELSE IF m = Nothing THEN Returns(Nothing)
        ELSE Returns(Some(heading_triple(m[1])))

\* _extract_heading_meta: Returns(Nothing) for `return None`
extract_heading_meta(section_text) ==
    LET ls == StrippedNonBlank(Split(section_text, "\n"))
        m1 == MatchHeadingNumber(ls[1])
        m  == IF m1 = Nothing /\ Len(ls) > 1 THEN MatchHeadingNumber(ls[2]) ELSE m1
    IN  IF ls = <<>> THEN Returns(Nothing)
        ELSE IF Len(ls) < 1 THEN Raises("IndexError")
        ELSE IF m = Nothing THEN Returns(Nothing)
        ELSE Returns(Some(heading_triple(m[1])))

\* _chunk_section, lines 129-142: the heading anchor of a section
section_heading(section) ==
    LET id == Strip(section.id)
        heading_meta == extract_heading_meta(section.text)
    IN  IF MatchesDottedId(id) THEN Returns(heading_triple(id))
        ELSE IF heading_meta.raised THEN heading_meta
        ELSE IF heading_meta.value # Nothing THEN Returns(heading_meta.value[1])
        ELSE Returns(no_heading)

W_us == <<"_">>

W_section_cite == <<","," ","S","e","c","t","i","o","n"," ">>

W_definition_cite == <<","," ","D","e","f","i","n","i","t","i","o","n",":"," ">>

W_def == <<"_","d","e","f","_">>

W_means == <<" ","m","e","a","n","s"," ">>

W_quote == <<"\"">>

W_definitions == <<"d","e","f","i","n","i","t","i","o","n","s">>

\* a clause chunk whose heading anchor is computed again, from its own content
clause_chunk_reanchored(doc, section, h, index, content) ==
    [chunk_id        |-> doc.document_id \o W_us \o section.id \o W_us \o IntStr(index),
     document_id     |-> doc.document_id,
     section_id      |-> section.id,
     chunk_index     |-> index,
     chunk_type      |-> "clause",
     tags            |-> section.tags,
     source_citation |-> doc.title \o W_section_cite \o section.id,
     heading_number  |-> section_heading([section EXCEPT !.text = content]).value.heading_number,
     heading_level   |-> section_heading([section EXCEPT !.text = content]).value.heading_level,
     parent_heading_number |->
         section_heading([section EXCEPT !.text = content]).value.parent_heading_number,
     content         |-> content]

\* ProcessedChunk(metadata=ChunkMetadata(...), content=...) of a clause
clause_chunk(doc, section, h, index, content) ==
    [chunk_id        |-> doc.document_id \o W_us \o section.id \o W_us \o IntStr(index),
     document_id     |-> doc.document_id,
     section_id      |-> section.id,
     chunk_index     |-> index,
     chunk_type      |-> "clause",
     tags            |-> section.tags,
     source_citation |-> doc.title \o W_section_cite \o section.id,
     heading_number  |-> h.heading_number,
     heading_level   |-> h.heading_level,
     parent_heading_number |-> h.parent_heading_number,
     content         |-> content]

\* for i, chunk_text in enumerate(chunk_texts): the chunks of a split section
clause_chunks(doc, section, h, texts) ==
    [k \in 1..Len(texts) |-> clause_chunk(doc, section, h, k - 1, texts[k])]

\* the characters the model's strings are made of, in code order
CharSeq == UpperSeq \o LowerSeq \o DigitSeq \o <<" ", ".", "_", "\"", "\n", "\t", ",", ":">>

CharCode(c) == CHOOSE k \in 1..Len(CharSeq) : CharSeq[k] = c

HexSeq == <<"0","1","2","3","4","5","6","7","8","9","a","b","c","d","e","f">>

RECURSIVE Digest(_, _, _)
Digest(str, acc, mult) ==
    IF str = <<>> THEN acc
    ELSE Digest(Tail(str), (acc * mult + CharCode(str[1])) % 65536, mult)

RECURSIVE HexStr(_, _)
HexStr(n, width) ==
    IF width = 0 THEN <<>> ELSE HexStr(n \div 16, width - 1) \o <<HexSeq[(n % 16) + 1]>>

\* _hash_string: the first 8 hex digits of a digest of the characters.  MD5 is
\* not computed; a fixed function of the characters onto 32 bits (two 16-bit
\* halves) stands for it.
hash_string(str) == HexStr(Digest(str, 7, 31), 4) \o HexStr(Digest(str, 11, 37), 4)

\* _chunk_definition with the term lower-cased but its spaces kept in the tag
chunk_definition_spaced_tag(doc, definition) ==
    [chunk_id        |-> doc.document_id \o W_def \o hash_string(definition.term),
     document_id     |-> doc.document_id,
     section_id      |-> IF definition.section_id # Nothing /\ definition.section_id[1] # <<>>
                         THEN definition.section_id[1] ELSE W_definitions,
     chunk_index     |-> 0,
     chunk_type      |-> "definition",
     tags            |-> << <<"d","e","f","i","n","i","t","i","o","n">>,
                            Lower(definition.term) >>,
     source_citation |-> doc.title \o W_definition_cite \o definition.term,
     heading_number  |-> Nothing,
     heading_level   |-> Nothing,
     parent_heading_number |-> Nothing,
     content         |-> W_quote \o definition.term \o W_quote \o W_means
                         \o definition.definition]

\* _chunk_definition
chunk_definition(doc, definition) ==
    [chunk_id        |-> doc.document_id \o W_def \o hash_string(definition.term),
     document_id     |-> doc.document_id,
     section_id      |-> IF definition.section_id # Nothing /\ definition.section_id[1] # <<>>
                         THEN definition.section_id[1] ELSE W_definitions,
     chunk_index     |-> 0,
     chunk_type      |-> "definition",
     tags            |-> << <<"d","e","f","i","n","i","t","i","o","n">>,
                            ReplaceChar(Lower(definition.term), " ", "_") >>,
     source_citation |-> doc.title \o W_definition_cite \o definition.term,
     heading_number  |-> Nothing,
     heading_level   |-> Nothing,
     parent_heading_number |-> Nothing,
     content         |-> W_quote \o definition.term \o W_quote \o W_means
                         \o definition.definition]

\* fits_one_chunk with `<` for `<=`
fits_one_chunk_strict(text) == Len(text) < max_chunk_size

\* `if len(text) <= self.max_chunk_size`: the section becomes a single chunk
fits_one_chunk(text) == Len(text) <= max_chunk_size

\* window_end with the period searched in the whole window, not its last 100 characters
window_end_unbounded(text, from) ==
    LET end == from + max_chunk_size
        sentence_end == RFind(text, ".", from, end)
    IN  IF end < Len(text) /\ sentence_end > from THEN sentence_end + 1 ELSE end

\* one window of _split_text_with_overlap from `from`: its end offset
window_end(text, from) ==
    LET end == from + max_chunk_size
        sentence_end == RFind(text, ".", from + max_chunk_size - sentence_lookback, end)
    IN  IF end < Len(text) /\ sentence_end > from THEN sentence_end + 1 ELSE end

\* text[start:end].strip()
window_text(text, from, to) == Strip(Slice(text, from, to))

\* next_start with the overlap added instead of subtracted
next_start_gap(to) == to + chunk_overlap

\* start = end - self.chunk_overlap
next_start(to) == to - chunk_overlap

-----------------------------------------------------------------------------
(* Inputs of the segmenters                                                *)

MaxLines == 4

MaxParas == 4

BoundedSeq(S, n) == UNION {[1..k -> S] : k \in 0..n}

\* "1. SALE PRICE."
L_sale_price == <<"1","."," ","S","A","L","E"," ","P","R","I","C","E",".">>

\* "1. TERM."  (the same number again)
L_term == <<"1","."," ","T","E","R","M",".">>

\* "1.1 Closing"
L_closing == <<"1",".","1"," ","C","l","o","s","i","n","g">>

\* " A. Notice"  (indented)
L_notice == <<" ","A","."," ","N","o","t","i","c","e">>

\* "1. A."  (no heading: the title needs two characters)
L_near == <<"1","."," ","A",".">>

\* " body. "
L_body == <<" ","b","o","d","y","."," ">>

\* "  "
L_blank == <<" "," ">>

LinePool == {<<>>, L_blank, L_body, L_near, L_sale_price, L_term, L_closing, L_notice}

Para(xml_id, base, toc_number, text) ==
    [xml_id |-> xml_id, base |-> base, toc_number |-> toc_number, text |-> text]

T_x == <<"x"," ","y">>

P_body == Para(Nothing, <<>>, <<>>, <<" ">> \o T_x)

P_blank == Para(Nothing, <<>>, <<>>, <<" ">>)

P_id_only == Para(Some(<<"n","1">>), <<>>, <<>>, T_x)

P_rate == Para(Some(<<"H","_","1">>), <<"r","a","t","e","_","s","a","l","e">>, <<>>,
               <<"R","a","t","e","s">>)

P_toc == Para(Some(<<"s","2">>), <<>>, <<"1">>, <<"T","e","r","m">>)

P_toc_sub == Para(Some(<<"a">>), <<>>, <<"1",".","1">>, <<>>)

P_empty_id == Para(Some(<<>>), <<"l","a","w">>, <<>>, <<"L","a","w">>)

ParaPool == {P_body, P_blank, P_id_only, P_rate, P_toc, P_toc_sub, P_empty_id}

-----------------------------------------------------------------------------
(* The segmenters as a state machine                                       *)

\* xml:id values are unique in a document
XmlIdsUnique(ps) ==
    \A a, b \in 1..Len(ps) :
        (a # b /\ ps[a].xml_id # Nothing /\ ps[b].xml_id # Nothing)
            => ps[a].xml_id # ps[b].xml_id

\* no call of index_chunks: an empty table
NoIndexArgs == [document |-> [document_id |-> <<>>, title |-> <<>>, sections |-> <<>>,
                              definitions |-> <<>>],
                chunks |-> <<>>, embeddings |-> <<>>]

IndexIdle ==
    /\ clauses = {} /\ next_id = 1
    /\ idx_pc = "idle" /\ idx_i = 0
    /\ idx_args = NoIndexArgs
    /\ idx_log = <<>>

\* nothing extracted yet
IngestIdle ==
    /\ definitions = <<>>
    /\ file_paths = <<>> /\ file_i = 0 /\ ing_pc = "idle"
    /\ documents = <<>> /\ errors = <<>> /\ output_dir = {}
    /\ workers = <<>>
    /\ IndexIdle

ChunkIdle ==
    /\ document = [document_id |-> <<>>, title |-> <<>>, sections |-> <<>>,
                   definitions |-> <<>>]
    /\ call = 0 /\ ck_pc = "idle" /\ sec_i = 0 /\ def_i = 0
    /\ chunks = <<>> /\ first_chunks = <<>> /\ heading = Nothing
    /\ start = 0 /\ chunk_texts = <<>> /\ wins = <<>> /\ log = <<>>

SegInit ==
    /\ IngestIdle
    /\ fmt \in {"pdf", "xml"}
    /\ lines \in (IF fmt = "pdf" THEN BoundedSeq(LinePool, MaxLines) ELSE {<<>>})
    /\ paras \in (IF fmt = "xml"
                  THEN {ps \in BoundedSeq(ParaPool, MaxParas) : XmlIdsUnique(ps)}
                  ELSE {<<>>})
    /\ ChunkIdle
    /\ i = 1
    /\ current_section = Nothing
    /\ current_content = <<>>
    /\ section_counter = 0
    /\ sections = <<>>
    /\ seg_pc = "loop"

SegNext ==
    \/ pdf_extract_sections_line
    \/ pdf_extract_sections_return
    \/ xml_extract_sections_elem
    \/ xml_extract_sections_return

SpecSeg == SegInit /\ [][SegNext]_vars

-----------------------------------------------------------------------------
(* Properties of the segmenters                                            *)

SegDone == seg_pc = "done"

\* the lines the PDF segmenter takes for headings: non-blank after strip and
\* matching one of the three heading patterns
PdfIsHeading(k) ==
    LET line == Strip(lines[k]) IN
    line # <<>> /\ (\/ section_pattern_1(line) # Nothing
                    \/ section_pattern_2(line) # Nothing
                    \/ section_pattern_3(line) # Nothing)

PdfHeadings == {k \in 1..Len(lines) : PdfIsHeading(k)}

\* the paragraphs that are heading blocks: an identity attribute and
\* (a table-of-contents number or a base classification)
XmlHeadings ==
    {k \in 1..Len(paras) :
        paras[k].xml_id # Nothing /\ (paras[k].toc_number # <<>> \/ paras[k].base # <<>>)}

Headings == IF fmt = "pdf" THEN PdfHeadings ELSE XmlHeadings

\* the n-th smallest element of a set of numbers
Nth(S, n) == CHOOSE k \in S : Cardinality({j \in S : j < k}) = n - 1

\* the non-blank lines lo..hi, stripped
RECURSIVE NonBlankLines(_, _)
NonBlankLines(lo, hi) ==
    IF lo > hi THEN <<>>
    ELSE (IF Strip(lines[lo]) # <<>> THEN <<Strip(lines[lo])>> ELSE <<>>)
         \o NonBlankLines(lo + 1, hi)

\* heading line n with the non-blank lines up to the next heading or the end
PdfSectionText(n) ==
    LET h == Nth(PdfHeadings, n)
        stop == IF n < Cardinality(PdfHeadings) THEN Nth(PdfHeadings, n + 1) - 1
                ELSE Len(lines)
    IN  Join(NonBlankLines(h, stop), <<"\n">>)

\* C1: every section the PDF segmenter emits, not only the last, has as text its
\* heading line and the non-blank lines after it up to the next heading or the end
C1_EverySectionHasItsText ==
    (fmt = "pdf" /\ SegDone) =>
        \A n \in 1..Len(sections) :
            n <= Cardinality(PdfHeadings) => sections[n].text = PdfSectionText(n)

\* what does hold of the code: the last section carries its text
C1_LastSectionHasItsText ==
    (fmt = "pdf" /\ SegDone /\ sections # <<>>) =>
        /\ Len(sections) = Cardinality(PdfHeadings)
        /\ sections[Len(sections)].text = PdfSectionText(Len(sections))

\* the identifier a heading gives its section
HeadingId(k) ==
    IF fmt = "pdf" THEN section_match(Strip(lines[k]))[1].g1
    ELSE IF paras[k].toc_number # <<>> THEN paras[k].toc_number
    ELSE RemoveAll(paras[k].xml_id[1], W_H_)

\* C2: one section per heading block, in source order; nothing for the blocks
\* before the first heading; a heading followed at once by a heading is kept
C2_OneSectionPerHeading ==
    SegDone =>
        /\ Len(sections) = Cardinality(Headings)
        /\ \A n \in 1..Len(sections) :
               n <= Cardinality(Headings) => sections[n].id = HeadingId(Nth(Headings, n))

\* a PDF run over: a text line, then two headings one right after the other
C2_Witness ==
    /\ fmt = "pdf" /\ SegDone
    /\ Len(lines) = 3 /\ PdfHeadings = {2, 3} /\ Strip(lines[1]) # <<>>
    /\ Len(sections) = 2

\* C3: the identifiers of a document's sections are pairwise distinct
C3_SectionIdsDistinct ==
    \A a, b \in 1..Len(sections) : a # b => sections[a].id # sections[b].id

-----------------------------------------------------------------------------
(* chunk_document as a state machine.  It is called twice in a row on the  *)
(* same document object (call = 1, then call = 2).                         *)

\* _chunk_section up to the length test: the anchor, then either the single
\* chunk of a short section or the entry into _split_text_with_overlap
chunk_section ==
    /\ ck_pc = "section" /\ sec_i <= Len(document.sections)
    /\ LET section == document.sections[sec_i]
           h == section_heading(section)
       IN  IF h.raised THEN
               /\ ck_pc' = "raised"
               /\ UNCHANGED <<sec_i, chunks, heading, start, chunk_texts, wins, log>>
           ELSE IF fits_one_chunk(section.text) THEN
               /\ chunks' = Append(chunks,
                                   clause_chunk(document, section, h.value, 0, section.text))
               /\ log' = Append(log, [nchunks |-> 1, windows |-> <<>>])
               /\ sec_i' = sec_i + 1
               /\ UNCHANGED <<ck_pc, heading, start, chunk_texts, wins>>
           ELSE
               /\ heading' = Some(h.value)
               /\ start' = 0 /\ chunk_texts' = <<>> /\ wins' = <<>>
               /\ ck_pc' = "split"
               /\ UNCHANGED <<sec_i, chunks, log>>
    /\ UNCHANGED <<document, call, def_i, first_chunks>>
    /\ UNCHANGED seg_vars
    /\ UNCHANGED ing_vars

\* one iteration of `while start < len(text)`; the `break` leaves the loop in
\* the state in which the loop test fails
split_text_with_overlap_iter ==
    /\ ck_pc = "split" /\ start < Len(document.sections[sec_i].text)
    /\ LET text == document.sections[sec_i].text
           end == window_end(text, start)
           chunk_text == window_text(text, start, end)
           window == Slice(text, start, end)
       IN  /\ chunk_texts' = IF chunk_text # <<>> THEN Append(chunk_texts, chunk_text)
                             ELSE chunk_texts
           /\ wins' = Append(wins, [start |-> start, end |-> end,
                                    kept  |-> chunk_text # <<>>,
                                    from  |-> start + StripFrom(window),
                                    to    |-> start + StripTo(window)])
           /\ start' = next_start(end)
    /\ UNCHANGED <<document, call, ck_pc, sec_i, def_i, chunks, first_chunks, heading, log>>
    /\ UNCHANGED seg_vars
    /\ UNCHANGED ing_vars

\* _split_text_with_overlap returns; _chunk_section wraps the texts and returns
split_text_with_overlap_return ==
    /\ ck_pc = "split" /\ start >= Len(document.sections[sec_i].text)
    /\ chunks' = chunks \o clause_chunks(document, document.sections[sec_i],
                                         heading[1], chunk_texts)
    /\ log' = Append(log, [nchunks |-> Len(chunk_texts), windows |-> wins])
    /\ sec_i' = sec_i + 1
    /\ ck_pc' = "section"
    /\ heading' = Nothing /\ start' = 0 /\ chunk_texts' = <<>> /\ wins' = <<>>
    /\ UNCHANGED <<document, call, def_i, first_chunks>>
    /\ UNCHANGED seg_vars
    /\ UNCHANGED ing_vars

\* `for section in document.sections` is exhausted
chunk_document_sections_end ==
    /\ ck_pc = "section" /\ sec_i > Len(document.sections)
    /\ ck_pc' = "defs" /\ def_i' = 1
    /\ UNCHANGED <<document, call, sec_i, chunks, first_chunks, heading, start,
                   chunk_texts, wins, log>>
    /\ UNCHANGED seg_vars
    /\ UNCHANGED ing_vars

\* one iteration of `for definition in document.definitions`
chunk_document_definition ==
    /\ ck_pc = "defs" /\ def_i <= Len(document.definitions)
    /\ chunks' = Append(chunks, chunk_definition(document, document.definitions[def_i]))
    /\ def_i' = def_i + 1
    /\ UNCHANGED <<document, call, ck_pc, sec_i, first_chunks, heading, start,
                   chunk_texts, wins, log>>
    /\ UNCHANGED seg_vars
    /\ UNCHANGED ing_vars

\* chunk_document_return with the list kept from one call to the next
chunk_document_return_keep ==
    /\ ck_pc = "defs" /\ def_i > Len(document.definitions)
    /\ IF call = 1 THEN
           /\ first_chunks' = chunks
           /\ call' = 2 /\ ck_pc' = "section" /\ sec_i' = 1 /\ def_i' = 0
           /\ log' = <<>>
           /\ UNCHANGED chunks
       ELSE
           /\ ck_pc' = "done"
           /\ UNCHANGED <<call, sec_i, def_i, chunks, first_chunks, log>>
    /\ UNCHANGED <<document, heading, start, chunk_texts, wins>>
    /\ UNCHANGED seg_vars
    /\ UNCHANGED ing_vars

\* `return chunks`; after the first call chunk_document is called again
chunk_document_return ==
    /\ ck_pc = "defs" /\ def_i > Len(document.definitions)
    /\ IF call = 1 THEN
           /\ first_chunks' = chunks
           /\ call' = 2 /\ ck_pc' = "section" /\ sec_i' = 1 /\ def_i' = 0
           /\ chunks' = <<>> /\ log' = <<>>
       ELSE
           /\ ck_pc' = "done"
           /\ UNCHANGED <<call, sec_i, def_i, chunks, first_chunks, log>>
    /\ UNCHANGED <<document, heading, start, chunk_texts, wins>>
    /\ UNCHANGED seg_vars
    /\ UNCHANGED ing_vars

-----------------------------------------------------------------------------
(* Inputs of the chunker                                                   *)

MaxSections == 2

MaxDefs == 2

Sec(id, text) ==
    [id |-> id, title |-> <<"T","e","r","m">>, text |-> text,
     clause_type |-> "Termination", tags |-> <<"termination">>]

Def(term, definition, section_id) ==
    [term |-> term, definition |-> definition, section_id |-> section_id]

Doc(secs, defs) ==
    [document_id |-> <<"d","1">>, title |-> <<"P","P","A">>,
     sections |-> secs, definitions |-> defs]

Id_5 == <<"5">>

Id_11_4 == <<"1","1",".","4">>

Id_11_4_2 == <<"1","1",".","4",".","2">>

Id_A == <<"A">>

\* " 1.2"
Id_padded == <<" ","1",".","2">>

\* "1."
Id_dot == <<"1",".">>

IdPool == {<<>>, Id_5, Id_11_4, Id_11_4_2, Id_A, Id_padded, Id_dot}

\* " \n"
T_ws == <<" ","\n">>

\* "ab"
T_plain == <<"a","b">>

\* "7.1 x"
T_first == <<"7",".","1"," ","x">>

\* "x\n1.2.3a"
T_second == <<"x","\n","1",".","2",".","3","a">>

\* "x\ny\n1.2"
T_third == <<"x","\n","y","\n","1",".","2">>

\* "5. Ab.\nz"
T_head5 == <<"5","."," ","A","b",".","\n","z">>

ShortTexts == {<<>>, T_ws, T_plain, T_first, T_second, T_third, T_head5}

\* a text of the given length: "." at the offsets in dots, " " at those in ws,
\* "a" elsewhere
LongText(len, dots, ws) ==
    [k \in 1..len |-> IF (k - 1) \in dots THEN "."
                      ELSE IF (k - 1) \in ws THEN " " ELSE "a"]

LongLens == {1000, 1001, 1100, 1900, 1901, 2300}

DotSets == {{}, {899}, {900}, {950}, {999}, {1000}, {920, 960}, {950, 1800},
            {950, 1850}, {1850}, {999, 1898}, {k \in 0..2299 : k % 7 = 3}}

WsSets(len) == {0..(len - 1), {0}, {len - 1}, 500..1099, 0..999, 1000..(len - 1),
                900..1899}

LongTexts ==
    UNION {   {LongText(len, ds, {}) : ds \in DotSets}
           \cup {LongText(len, {}, ws) : ws \in WsSets(len)}
           \cup {LongText(len, {950}, {951})}
          : len \in LongLens}

\* a long text that begins with the heading number "7.1"
T_long_headed == T_first \o LongText(1100, {950}, {})

\* a long text that ends between the start of its third window and the hard
\* edge of its second
T_long_tail == LongText(1850, {}, {})

SectionPool ==
    {Sec(id, text) : id \in IdPool, text \in ShortTexts}
    \cup {Sec(<<"3",".","1">>, text) : text \in LongTexts}
    \cup {Sec(Id_A, T_long_headed), Sec(Id_A, T_long_tail)}

SmallSectionPool ==
    {Sec(Id_5, T_plain), Sec(Id_11_4, T_first), Sec(Id_11_4, <<>>), Sec(Id_A, T_second)}

T_MAE == <<"M","A","E">>

DefPool ==
    {Def(T_MAE, <<"x",".">>, Some(<<"1">>)),
     Def(T_MAE, <<"y",".">>, Nothing),
     Def(<<"N","e","t"," ","P","a","y">>, <<"z",".">>, Some(<<>>)),
     Def(<<"L","o","n","g">>, LongText(max_chunk_size + 1, {max_chunk_size}, {}),
         Some(<<"2">>))}

\* a document with one section of any kind, or a document of up to MaxSections
\* short sections and up to MaxDefs definitions
Documents ==
    {Doc(<<sec>>, <<>>) : sec \in SectionPool}
    \cup {Doc(secs, defs) : secs \in BoundedSeq(SmallSectionPool, MaxSections),
                            defs \in BoundedSeq(DefPool, MaxDefs)}

SegIdle ==
    /\ fmt = "none" /\ lines = <<>> /\ paras = <<>> /\ i = 0
    /\ current_section = Nothing /\ current_content = <<>>
    /\ section_counter = 0 /\ sections = <<>> /\ seg_pc = "idle"

ChunkInit ==
    /\ IngestIdle
    /\ SegIdle
    /\ document \in Documents
    /\ call = 1 /\ ck_pc = "section" /\ sec_i = 1 /\ def_i = 0
    /\ chunks = <<>> /\ first_chunks = <<>> /\ heading = Nothing
    /\ start = 0 /\ chunk_texts = <<>> /\ wins = <<>> /\ log = <<>>

ChunkNext ==
    \/ chunk_section
    \/ split_text_with_overlap_iter
    \/ split_text_with_overlap_return
    \/ chunk_document_sections_end
    \/ chunk_document_definition
    \/ chunk_document_return

SpecChunk == ChunkInit /\ [][ChunkNext]_vars

-----------------------------------------------------------------------------
(* Definition extraction: _extract_definitions of the two parsers          *)
(*                                                                         *)
(* The patterns are sequences of items, each a literal word or a character *)
(* class taken once or repeated greedily:                                  *)
(*   [word: the literal word, icase: it is matched ignoring case,          *)
(*    cls: set of characters, neg: the class is negated,                   *)
(*    min: least number of repetitions, many: repeated without bound]      *)

Item(cls, neg, min, many) ==
    [word |-> <<>>, icase |-> FALSE, cls |-> cls, neg |-> neg, min |-> min, many |-> many]

\* a literal character
Ch(c) == Item({c}, FALSE, 1, FALSE)

\* a literal word
Word(w) ==
    <<[word |-> w, icase |-> FALSE, cls |-> {}, neg |-> FALSE, min |-> 1, many |-> FALSE]>>

\* cls+
Plus(cls) == Item(cls, FALSE, 1, TRUE)

\* cls*
Star(cls) == Item(cls, FALSE, 0, TRUE)

\* [^c]+
PlusNot(c) == Item({c}, TRUE, 1, TRUE)

\* [^c]*
StarNot(c) == Item({c}, TRUE, 0, TRUE)

\* [A-Z]
OneUpper == Item(UpperSet, FALSE, 1, FALSE)

InClass(item, c) == (c \in item.cls) # item.neg

\* how many characters from position pos on are in the item's class
ClassRun(item, text, pos) ==
    CHOOSE n \in 0..Max(0, Len(text) - pos + 1) :
        /\ \A k \in pos..(pos + n - 1) : InClass(item, text[k])
        /\ (pos + n <= Len(text) => ~InClass(item, text[pos + n]))

\* the item's word stands at position pos
WordAt(item, text, pos) ==
    /\ pos + Len(item.word) - 1 <= Len(text)
    /\ \A k \in 1..Len(item.word) :
           IF item.icase THEN LowerChar(text[pos + k - 1]) = LowerChar(item.word[k])
           ELSE text[pos + k - 1] = item.word[k]

\* the numbers of characters the item can take at position pos
Takes(item, text, pos) ==
    IF item.word # <<>>
    THEN (IF WordAt(item, text, pos) THEN {Len(item.word)} ELSE {})
    ELSE item.min..(IF item.many THEN ClassRun(item, text, pos)
                    ELSE Min(ClassRun(item, text, pos), 1))

\* of the ways to go on after an item, each the number n of characters the
\* item takes and the match of the rest, the one where the item takes most
LongestMatch(rests, pos) ==
    LET fits == {r \in rests : r.rest.ok}
        best == CHOOSE r \in fits : \A o \in fits : o.n <= r.n
    IN  IF fits = {} THEN [ok |-> FALSE, ends |-> <<>>]
        ELSE [ok |-> TRUE, ends |-> <<pos + best.n>> \o best.rest.ends]

\* re.match of the items j.. of a pattern at position pos (1-based): whether
\* they match and, if so, the position after each item.  An item takes the
\* largest number of characters for which the rest of the pattern matches.
RECURSIVE MatchItems(_, _, _, _)
MatchItems(pat, text, pos, j) ==
    IF j > Len(pat) THEN [ok |-> TRUE, ends |-> <<>>]
    ELSE CHOOSE match \in
             {LongestMatch(rests, pos) :
                 rests \in {{[n |-> n, rest |-> MatchItems(pat, text, pos + n, j + 1)] :
                                n \in Takes(pat[j], text, pos)}}} : TRUE

\* the text of items a..b of a match that starts at pos
Group(text, pos, ends, a, b) ==
    SubSeq(text, IF a = 1 THEN pos ELSE ends[a - 1], ends[b] - 1)

\* re.findall(pattern, text) from position `from` on, for a pattern with two
\* groups g1 = items g[1]..g[2] and g2 = items g[3]..g[4]: the (g1, g2) pairs of
\* the matches, leftmost first and not overlapping
RECURSIVE FindAllFrom(_, _, _, _)
FindAllFrom(pat, g, text, from) ==
    LET hits  == {p \in from..Len(text) : MatchItems(pat, text, p, 1).ok}
        first == CHOOSE p \in hits : \A q \in hits : p <= q
        ends  == MatchItems(pat, text, first, 1).ends
    IN  IF hits = {} THEN <<>>
        ELSE << <<Group(text, first, ends, g[1], g[2]),
                  Group(text, first, ends, g[3], g[4])>> >>
             \o FindAllFrom(pat, g, text, ends[Len(ends)])

FindAll(pat, g, text) == FindAllFrom(pat, g, text, 1)

W_mean == <<"m","e","a","n">>

W_means_kw == <<"m","e","a","n","s">>

W_shall == <<"s","h","a","l","l">>

W_definition == <<"d","e","f","i","n","i","t","i","o","n">>

\* "([^"]+)"
QuotedTerm == <<Ch("\""), PlusNot("\""), Ch("\"")>>

\* ([A-Z][A-Za-z\s]+)
CapitalTerm == <<OneUpper, Plus(UpperSet \cup LowerSet \cup SpaceSet)>>

\* \([^)]*\)
Parenthesis == <<Ch("("), StarNot(")"), Ch(")")>>

\* r'"([^"]+)"\s+means\s+([^.]+\.)'
pdf_def_pattern_1 ==
    QuotedTerm \o <<Plus(SpaceSet)>> \o Word(W_means_kw) \o <<Plus(SpaceSet)>>
    \o <<PlusNot("."), Ch(".")>>

\* r'"([^"]+)"\s+shall\s+mean\s+([^.]+\.)'
pdf_def_pattern_2 ==
    QuotedTerm \o <<Plus(SpaceSet)>> \o Word(W_shall) \o <<Plus(SpaceSet)>> \o Word(W_mean)
    \o <<Plus(SpaceSet)>> \o <<PlusNot("."), Ch(".")>>

\* r'([A-Z][A-Za-z\s]+)\s+means\s+([^.]+\.)'
pdf_def_pattern_3 ==
    CapitalTerm \o <<Plus(SpaceSet)>> \o Word(W_means_kw) \o <<Plus(SpaceSet)>>
    \o <<PlusNot("."), Ch(".")>>

\* r'"([^"]+)"\s*\([^)]*\)\s*means\s+([^.]+\.)'
pdf_inline_pattern_1 ==
    QuotedTerm \o <<Star(SpaceSet)>> \o Parenthesis \o <<Star(SpaceSet)>>
    \o Word(W_means_kw) \o <<Plus(SpaceSet)>> \o <<PlusNot("."), Ch(".")>>

\* r'([A-Z][A-Za-z\s]+)\s*\([^)]*\)\s*means\s+([^.]+\.)'
pdf_inline_pattern_2 ==
    CapitalTerm \o <<Star(SpaceSet)>> \o Parenthesis \o <<Star(SpaceSet)>>
    \o Word(W_means_kw) \o <<Plus(SpaceSet)>> \o <<PlusNot("."), Ch(".")>>

\* r'"([^"]+)"\s+means\s+([^.]+)'
xml_def_pattern ==
    QuotedTerm \o <<Plus(SpaceSet)>> \o Word(W_means_kw) \o <<Plus(SpaceSet)>>
    \o <<PlusNot(".")>>

\* r'"([^"]+)"\s*\([^)]*\)\s*means\s+([^.]+)'
xml_inline_pattern ==
    QuotedTerm \o <<Star(SpaceSet)>> \o Parenthesis \o <<Star(SpaceSet)>>
    \o Word(W_means_kw) \o <<Plus(SpaceSet)>> \o <<PlusNot(".")>>

\* the items of the two groups of a pattern: the term is the quoted part (item
\* 2) or the capitalised part (items 1-2), the definition the end of the pattern
QuotedGroups(pat, tail) == <<2, 2, Len(pat) - tail + 1, Len(pat)>>

CapitalGroups(pat, tail) == <<1, 2, Len(pat) - tail + 1, Len(pat)>>

\* Definition(term=..., definition=..., section_id=...) for each match
Definitions(matches, strip_term, section_id) ==
    [k \in 1..Len(matches) |->
        [term       |-> IF strip_term THEN Strip(matches[k][1]) ELSE matches[k][1],
         definition |-> Strip(matches[k][2]),
         section_id |-> section_id]]

\* the body of `for section in sections` of PDFLegalParser._extract_definitions
pdf_section_definitions(section) ==
    IF Contains(Lower(section.title), W_definition)
    THEN    Definitions(FindAll(pdf_def_pattern_1, QuotedGroups(pdf_def_pattern_1, 2),
                                section.text), TRUE, Some(section.id))
         \o Definitions(FindAll(pdf_def_pattern_2, QuotedGroups(pdf_def_pattern_2, 2),
                                section.text), TRUE, Some(section.id))
         \o Definitions(FindAll(pdf_def_pattern_3, CapitalGroups(pdf_def_pattern_3, 2),
                                section.text), TRUE, Some(section.id))
    ELSE <<>>

\* the body of `for section in sections` of XMLLegalParser._extract_definitions
xml_section_definitions(section) ==
    IF Contains(Lower(section.title), W_definition)
    THEN Definitions(FindAll(xml_def_pattern, QuotedGroups(xml_def_pattern, 1),
                             section.text), FALSE, Some(section.id))
    ELSE <<>>

\* the definitions of sections n.., in order
RECURSIVE pdf_sections_definitions(_, _)
pdf_sections_definitions(secs, n) ==
    IF n > Len(secs) THEN <<>>
    ELSE pdf_section_definitions(secs[n]) \o pdf_sections_definitions(secs, n + 1)

RECURSIVE xml_sections_definitions(_, _)
xml_sections_definitions(secs, n) ==
    IF n > Len(secs) THEN <<>>
    ELSE xml_section_definitions(secs[n]) \o xml_sections_definitions(secs, n + 1)

\* full_text of parse_document: the lines of the pages, joined by newlines
pdf_full_text == Join(lines, <<"\n">>)

\* ET.tostring(root, method='text'): the text of the paragraphs in document
\* order, each paragraph followed by a newline
xml_content == Join([k \in 1..Len(paras) |-> paras[k].text], <<"\n">>)

\* PDFLegalParser._extract_definitions, called when _extract_sections returned
pdf_extract_definitions ==
    /\ fmt = "pdf" /\ seg_pc = "done"
    /\ definitions' =
              pdf_sections_definitions(sections, 1)
           \o Definitions(FindAll(pdf_inline_pattern_1, QuotedGroups(pdf_inline_pattern_1, 2),
                                  pdf_full_text), TRUE, Nothing)
           \o Definitions(FindAll(pdf_inline_pattern_2, CapitalGroups(pdf_inline_pattern_2, 2),
                                  pdf_full_text), TRUE, Nothing)
    /\ seg_pc' = "parsed"
    /\ UNCHANGED <<fmt, lines, paras, i, current_section, current_content,
                   section_counter, sections>>
    /\ UNCHANGED chunk_vars
    /\ UNCHANGED batch_vars

\* XMLLegalParser._extract_definitions, called when _extract_sections returned
xml_extract_definitions ==
    /\ fmt = "xml" /\ seg_pc = "done"
    /\ definitions' =
              xml_sections_definitions(sections, 1)
           \o Definitions(FindAll(xml_inline_pattern, QuotedGroups(xml_inline_pattern, 1),
                                  xml_content), FALSE, Nothing)
    /\ seg_pc' = "parsed"
    /\ UNCHANGED <<fmt, lines, paras, i, current_section, current_content,
                   section_counter, sections>>
    /\ UNCHANGED chunk_vars
    /\ UNCHANGED batch_vars

-----------------------------------------------------------------------------
(* Metadata extraction: _extract_metadata of the two parsers                *)

\* a match of a pattern in a text: where it starts and where each item ends
Match(pat, text, pos) == [start |-> pos, ends |-> MatchItems(pat, text, pos, 1).ends]

\* the least number of a set of positive numbers, 0 for the empty set
Least(S) == IF S = {} THEN 0 ELSE CHOOSE p \in S : \A q \in S : p <= q

\* the leftmost position from `from` on where one of the alternatives matches
FirstHit(alts, text, from) ==
    Least({p \in from..Len(text) : \E a \in 1..Len(alts) : MatchItems(alts[a], text, p, 1).ok})

\* the match at position pos of the first alternative that matches there
MatchAt(alts, text, pos) ==
    IF pos = 0 THEN Nothing
    ELSE Some(Match(alts[Least({a \in 1..Len(alts) : MatchItems(alts[a], text, pos, 1).ok})],
                    text, pos))

\* re.search(pattern, text) for a pattern given by its alternatives, in their
\* order of preference: the leftmost match from position `from` on, or None
SearchFrom(alts, text, from) == MatchAt(alts, text, FirstHit(alts, text, from))

\* the text of items a..b of a match
GroupOf(text, m, a, b) == Group(text, m.start, m.ends, a, b)

\* \d
OneDigit == Item(DigitSet, FALSE, 1, FALSE)

\* cls?
Opt(cls) == Item(cls, FALSE, 0, FALSE)

\* \w
WordSet == UpperSet \cup LowerSet \cup DigitSet \cup {"_"}

\* int(digits)
RECURSIVE ToInt(_)
ToInt(digits) ==
    IF digits = <<>> THEN 0
    ELSE 10 * ToInt(SubSeq(digits, 1, Len(digits) - 1))
         + (CHOOSE d \in 0..9 : DigitSeq[d + 1] = digits[Len(digits)])

\* the `months` table of the date parsers
months ==
    <<<<"j","a","n","u","a","r","y">>, <<"f","e","b","r","u","a","r","y">>, <<"m","a","r","c","h">>, <<"a","p","r","i","l">>, <<"m","a","y">>, <<"j","u","n","e">>, <<"j","u","l","y">>,
      <<"a","u","g","u","s","t">>, <<"s","e","p","t","e","m","b","e","r">>, <<"o","c","t","o","b","e","r">>, <<"n","o","v","e","m","b","e","r">>, <<"d","e","c","e","m","b","e","r">>>>

\* months.get(name): the number of the month, 0 for None
MonthNumber(name) ==
    IF \E k \in 1..12 : months[k] = name THEN CHOOSE k \in 1..12 : months[k] = name ELSE 0

IsLeap(year) == year % 4 = 0 /\ (year % 100 # 0 \/ year % 400 = 0)

DaysInMonth(year, month) ==
    IF month = 2 THEN (IF IsLeap(year) THEN 29 ELSE 28)
    ELSE IF month \in {4, 6, 9, 11} THEN 30 ELSE 31

\* datetime(year, month, day) inside `try: ... except ValueError`: the date, or
\* None when the constructor raises ValueError
TryDatetime(year, month, day) ==
    IF year \in 1..9999 /\ month \in 1..12 /\ day \in 1..DaysInMonth(year, month)
    THEN Some([year |-> year, month |-> month, day |-> day])
    ELSE Nothing

\* r'(\w+)\s+(\d{1,2}),\s+(\d{4})'
xml_date_pattern_0 ==
    <<Plus(WordSet), Plus(SpaceSet), OneDigit, Opt(DigitSet), Ch(","), Plus(SpaceSet),
      OneDigit, OneDigit, OneDigit, OneDigit>>

\* r'(\d{4})-(\d{2})-(\d{2})'
xml_date_pattern_2 ==
    <<OneDigit, OneDigit, OneDigit, OneDigit, Ch("-"), OneDigit, OneDigit, Ch("-"),
      OneDigit, OneDigit>>

\* XMLLegalParser._parse_date.  The second pattern, "27 September 2017", has no
\* branch in the loop: a text that matches it alone gives None.
xml_parse_date(date_text) ==
    LET text == Lower(date_text)
        m0   == SearchFrom(<<xml_date_pattern_0>>, text, 1)
        d0   == IF m0 = Nothing \/ MonthNumber(GroupOf(text, m0[1], 1, 1)) = 0 THEN Nothing
                ELSE TryDatetime(ToInt(GroupOf(text, m0[1], 7, 10)),
                                 MonthNumber(GroupOf(text, m0[1], 1, 1)),
                                 ToInt(GroupOf(text, m0[1], 3, 4)))
        m2   == SearchFrom(<<xml_date_pattern_2>>, text, 1)
        d2   == IF m2 = Nothing THEN Nothing
                ELSE TryDatetime(ToInt(GroupOf(text, m2[1], 1, 4)),
                                 ToInt(GroupOf(text, m2[1], 6, 7)),
                                 ToInt(GroupOf(text, m2[1], 9, 10)))
    IN  IF d0 # Nothing THEN d0 ELSE d2

\* `if elem.text`: the element has a text and it is not empty
HasText(elem) == elem.text # Nothing /\ elem.text # Some(<<>>)

\* XMLLegalParser._extract_parties: one Party per orgName element with a text
RECURSIVE xml_extract_parties(_, _)
xml_extract_parties(org_names, k) ==
    IF k > Len(org_names) THEN <<>>
    ELSE LET elem        == org_names[k]
             parent_text == Lower(elem.parent_text)
             party == [name |-> Strip(elem.text[1]),
                       role |-> IF Contains(parent_text, <<"s","e","l","l","e","r">>) THEN "seller"
                                ELSE IF Contains(parent_text, <<"b","u","y","e","r">>)
                                        \/ Contains(parent_text, <<"p","u","r","c","h","a","s","e","r">>) THEN "buyer"
                                ELSE "other",
                       jurisdiction |-> IF Contains(parent_text, <<"n","o","r","t","h"," ","d","a","k","o","t","a">>) THEN Some("US-ND")
                                        ELSE IF Contains(parent_text, <<"c","o","l","o","r","a","d","o">>) THEN Some("US-CO")
                                        ELSE Nothing,
                       entity_type |-> Some("Cooperative Corporation")]
         IN  (IF HasText(elem) THEN <<party>> ELSE <<>>)
             \o xml_extract_parties(org_names, k + 1)

\* XMLLegalParser._extract_dates: the loop over the date elements from element k
\* on, with the dates found so far
RECURSIVE xml_extract_dates(_, _, _)
xml_extract_dates(date_elems, k, found) ==
    IF k > Len(date_elems) THEN found
    ELSE LET elem        == date_elems[k]
             parsed_date == IF HasText(elem) THEN xml_parse_date(Strip(elem.text[1]))
                            ELSE Nothing
             parent_text == Lower(elem.parent_text)
         IN  xml_extract_dates(date_elems, k + 1,
                 IF parsed_date = Nothing THEN found
                 ELSE IF Contains(parent_text, <<"e","f","f","e","c","t","i","v","e">>)
                      THEN [found EXCEPT !.effective_date = parsed_date]
                 ELSE IF Contains(parent_text, <<"e","x","e","c","u","t","i","o","n">>)
                         \/ Contains(parent_text, <<"m","a","d","e"," ","a","s"," ","o","f">>)
                      THEN [found EXCEPT !.execution_date = parsed_date]
                 ELSE found)

\* XMLLegalParser._extract_jurisdiction: the loop over the p elements from
\* element k on, with the jurisdiction and governing law found so far
RECURSIVE xml_extract_jurisdiction(_, _, _)
xml_extract_jurisdiction(p_elems, k, found) ==
    IF k > Len(p_elems) THEN found
    ELSE LET elem == p_elems[k]
             own  == IF elem.text = Nothing THEN <<>> ELSE elem.text[1]
             text == Lower(elem.all_text)
         IN  xml_extract_jurisdiction(p_elems, k + 1,
                 IF ~(elem.base = <<"g","o","v","e","r","n","i","n","g"," ","l","a","w">> \/ Contains(Lower(own), <<"g","o","v","e","r","n","i","n","g"," ","l","a","w">>))
                 THEN found
                 ELSE IF Contains(text, <<"c","o","l","o","r","a","d","o">>)
                      THEN [jurisdiction |-> "US-CO", governing_law |-> Some("US-CO")]
                 ELSE IF Contains(text, <<"n","e","w"," ","y","o","r","k">>)
                      THEN [found EXCEPT !.governing_law = Some("US-NY")]
                 ELSE found)

\* XMLLegalParser._determine_industry
xml_determine_industry(root_text) ==
    LET content == Lower(root_text)
    IN  IF Contains(content, <<"p","o","w","e","r">>) /\ Contains(content, <<"e","l","e","c","t","r","i","c">>) THEN "Power"
        ELSE IF Contains(content, <<"l","n","g">>) \/ Contains(content, <<"n","a","t","u","r","a","l"," ","g","a","s">>) THEN "LNG"
        ELSE IF Contains(content, <<"i","n","f","r","a","s","t","r","u","c","t","u","r","e">>) THEN "Infrastructure"
        ELSE "Energy"

W_unknown_document == <<"U","n","k","n","o","w","n"," ","D","o","c","u","m","e","n","t">>

\* str.replace(old, ''), every occurrence, left to right
RECURSIVE Remove(_, _)
Remove(str, old) ==
    IF Len(str) < Len(old) THEN str
    ELSE IF SubSeq(str, 1, Len(old)) = old THEN Remove(SubSeq(str, Len(old) + 1, Len(str)), old)
    ELSE <<str[1]>> \o Remove(Tail(str), old)

\* source_file.split('/')[-1].replace(extension, '')
document_id_of(source_file, extension) ==
    LET parts == Split(source_file, "/") IN Remove(parts[Len(parts)], extension)

\* XMLLegalParser._extract_metadata: the DocumentMetadata, or the exception raised.
\* `title_elem.text.strip()` raises AttributeError when the title element has no
\* text of its own (text is None).
xml_extract_metadata(root, source_file) ==
    IF root.title_elem # Nothing /\ root.title_elem[1].text = Nothing
    THEN [raised |-> "AttributeError", metadata |-> Nothing]
    ELSE LET dates == xml_extract_dates(root.date_elems, 1,
                          [effective_date |-> Nothing, execution_date |-> Nothing])
             law   == xml_extract_jurisdiction(root.p_elems, 1,
                          [jurisdiction |-> "US", governing_law |-> Nothing])
         IN  [raised |-> "no", metadata |-> Some(
             [document_id    |-> document_id_of(source_file, <<".","x","m","l">>),
              title          |-> IF root.title_elem # Nothing
                                 THEN Strip(root.title_elem[1].text[1])
                                 ELSE W_unknown_document,
              document_type  |-> "Wholesale Power Contract",
              jurisdiction   |-> law.jurisdiction,
              governing_law  |-> law.governing_law,
              industry       |-> xml_determine_industry(root.content),
              effective_date |-> dates.effective_date,
              execution_date |-> dates.execution_date,
              parties        |-> xml_extract_parties(root.org_names, 1),
              source_file    |-> source_file,
              source_format  |-> "XML"])]

\* a literal word under re.IGNORECASE
WordI(w) ==
    <<[word |-> w, icase |-> TRUE, cls |-> {}, neg |-> FALSE, min |-> 1, many |-> FALSE]>>

\* ["\']
QuoteSet == {"\"", "'"}

LetterSet == UpperSet \cup LowerSet

\* [A-Z] under re.IGNORECASE
OneLetter == Item(LetterSet, FALSE, 1, FALSE)

\* the end of a match
EndOf(m) == m.ends[Len(m.ends)]

\* re.findall for a pattern given by its alternatives: the matches from position
\* `from` on, leftmost first and not overlapping; MatchesAfter continues after
\* the match (or None) just found
RECURSIVE MatchesFrom(_, _, _)
MatchesAfter(alts, text, m) ==
    IF m = Nothing THEN <<>> ELSE m \o MatchesFrom(alts, text, EndOf(m[1]))

MatchesFrom(alts, text, from) == MatchesAfter(alts, text, SearchFrom(alts, text, from))

\* \(["\']?([^"\']+)["\']?\)
RoleInParentheses ==
    <<Ch("("), Opt(QuoteSet), Item(QuoteSet, TRUE, 1, TRUE), Opt(QuoteSet), Ch(")")>>

\* r'between\s+([^,]+),?\s*\(["\']?([^"\']+)["\']?\)'
party_pattern_between ==
    WordI(<<"b","e","t","w","e","e","n">>) \o <<Plus(SpaceSet), PlusNot(","), Opt({","}), Star(SpaceSet)>>
    \o RoleInParentheses

\* r'([A-Z][A-Z\s&,\.]+(?:INC|LLC|CORP|CORPORATION|COMPANY))[,\s]*\(["\']?([^"\']+)["\']?\)'
\* for one of the suffixes; under re.IGNORECASE [A-Z] is any letter
party_pattern_company(suffix) ==
    <<OneLetter, Plus(LetterSet \cup SpaceSet \cup {"&", ",", "."})>>
    \o WordI(suffix) \o <<Star(SpaceSet \cup {","})>> \o RoleInParentheses

company_suffixes == <<<<"I","N","C">>, <<"L","L","C">>, <<"C","O","R","P">>, <<"C","O","R","P","O","R","A","T","I","O","N">>, <<"C","O","M","P","A","N","Y">>>>

\* PDFLegalParser._extract_entity_type
extract_entity_type(name) ==
    LET name_lower == Lower(name)
    IN  IF Contains(name_lower, <<"i","n","c">>) \/ Contains(name_lower, <<"i","n","c","o","r","p","o","r","a","t","e","d">>)
        THEN Some("Corporation")
        ELSE IF Contains(name_lower, <<"l","l","c">>) THEN Some("Limited Liability Company")
        ELSE IF Contains(name_lower, <<"c","o","r","p">>) \/ Contains(name_lower, <<"c","o","r","p","o","r","a","t","i","o","n">>)
        THEN Some("Corporation")
        ELSE IF Contains(name_lower, <<"c","o","m","p","a","n","y">>) THEN Some("Company")
        ELSE Nothing

\* the Party of one match: its name and role text are the groups that end at
\* items name_end and Len(ends) - 2 of the match
pdf_party(text, m, name_from, name_end) ==
    LET name      == Strip(GroupOf(text, m, name_from, name_end))
        role_text == Lower(Strip(GroupOf(text, m, Len(m.ends) - 2, Len(m.ends) - 2)))
    IN  [name |-> name,
         role |-> IF Contains(role_text, <<"s","e","l","l","e","r">>) \/ Contains(role_text, <<"v","e","n","d","o","r">>)
                  THEN "seller"
                  ELSE IF Contains(role_text, <<"b","u","y","e","r">>) \/ Contains(role_text, <<"p","u","r","c","h","a","s","e","r">>)
                  THEN "buyer"
                  ELSE "other",
         jurisdiction |-> Nothing,
         entity_type  |-> extract_entity_type(name)]

\* PDFLegalParser._extract_parties_from_text
pdf_extract_parties(text) ==
    LET between   == MatchesFrom(<<party_pattern_between>>, text, 1)
        companies == MatchesFrom([a \in 1..Len(company_suffixes) |->
                                     party_pattern_company(company_suffixes[a])], text, 1)
    IN     [k \in 1..Len(between) |-> pdf_party(text, between[k], 3, 3)]
        \o [k \in 1..Len(companies) |->
               pdf_party(text, companies[k], 1, Len(companies[k].ends) - 6)]

\* ([A-Za-z]+\s+\d{1,2},\s+\d{4})
DateWords ==
    <<Plus(LetterSet), Plus(SpaceSet), OneDigit, Opt(DigitSet), Ch(","), Plus(SpaceSet),
      OneDigit, OneDigit, OneDigit, OneDigit>>

\* the word followed by \s+
WordSpace(w) == WordI(w) \o <<Plus(SpaceSet)>>

\* r'effective\s+(?:date\s+)?(?:of\s+)?([A-Za-z]+\s+\d{1,2},\s+\d{4})', the
\* optional groups taken or not
pdf_date_pattern_effective ==
    <<WordSpace(<<"e","f","f","e","c","t","i","v","e">>) \o WordSpace(<<"d","a","t","e">>) \o WordSpace(<<"o","f">>) \o DateWords,
      WordSpace(<<"e","f","f","e","c","t","i","v","e">>) \o WordSpace(<<"d","a","t","e">>) \o DateWords,
      WordSpace(<<"e","f","f","e","c","t","i","v","e">>) \o WordSpace(<<"o","f">>) \o DateWords,
      WordSpace(<<"e","f","f","e","c","t","i","v","e">>) \o DateWords>>

\* r'dated\s+(?:as\s+of\s+)?([A-Za-z]+\s+\d{1,2},\s+\d{4})'
pdf_date_pattern_dated ==
    <<WordSpace(<<"d","a","t","e","d">>) \o WordSpace(<<"a","s">>) \o WordSpace(<<"o","f">>) \o DateWords,
      WordSpace(<<"d","a","t","e","d">>) \o DateWords>>

\* r'(\d{1,2})\s+day\s+of\s+([A-Za-z]+),\s+(\d{4})'
pdf_date_pattern_day_of ==
    <<OneDigit, Opt(DigitSet), Plus(SpaceSet)>> \o WordSpace(<<"d","a","y">>) \o WordSpace(<<"o","f">>)
    \o <<Plus(LetterSet), Ch(","), Plus(SpaceSet), OneDigit, OneDigit, OneDigit, OneDigit>>

\* PDFLegalParser._parse_date_string, on the date words of a match (its last ten items)
pdf_parse_date_string(text, m) ==
    LET n     == Len(m.ends)
        month == MonthNumber(Lower(GroupOf(text, m, n - 9, n - 9)))
    IN  IF month = 0 THEN Nothing
        ELSE TryDatetime(ToInt(GroupOf(text, m, n - 3, n)), month,
                         ToInt(GroupOf(text, m, n - 7, n - 6)))

\* PDFLegalParser._parse_date_components, on the three groups of a match
pdf_parse_date_components(text, m) ==
    LET n     == Len(m.ends)
        month == MonthNumber(Lower(GroupOf(text, m, n - 6, n - 6)))
    IN  IF month = 0 THEN Nothing
        ELSE TryDatetime(ToInt(GroupOf(text, m, n - 3, n)), month,
                         ToInt(GroupOf(text, m, 1, 2)))

\* the body of `for match in matches` of _extract_dates_from_text, over the
\* parsed dates from the k-th on
RECURSIVE pdf_assign_dates(_, _, _)
pdf_assign_dates(parsed, k, found) ==
    IF k > Len(parsed) THEN found
    ELSE pdf_assign_dates(parsed, k + 1,
             IF parsed[k] = Nothing THEN found
             ELSE IF found.effective_date = Nothing
                  THEN [found EXCEPT !.effective_date = parsed[k]]
             ELSE IF found.execution_date = Nothing
                  THEN [found EXCEPT !.execution_date = parsed[k]]
             ELSE found)

\* PDFLegalParser._extract_dates_from_text
pdf_extract_dates(text) ==
    LET effective == MatchesFrom(pdf_date_pattern_effective, text, 1)
        dated     == MatchesFrom(pdf_date_pattern_dated, text, 1)
        day_of    == MatchesFrom(<<pdf_date_pattern_day_of>>, text, 1)
    IN  pdf_assign_dates(
               [k \in 1..Len(effective) |-> pdf_parse_date_string(text, effective[k])]
            \o [k \in 1..Len(dated) |-> pdf_parse_date_string(text, dated[k])]
            \o [k \in 1..Len(day_of) |-> pdf_parse_date_components(text, day_of[k])],
            1, [effective_date |-> Nothing, execution_date |-> Nothing])

\* laws?\s+of\s+
LawsOf == WordI(<<"l","a","w">>) \o <<Opt({"s", "S"}), Plus(SpaceSet)>> \o WordSpace(<<"o","f">>)

\* ([A-Za-z\s]+)
StateWords == <<Plus(LetterSet \cup SpaceSet)>>

\* r'governed\s+by\s+(?:the\s+)?laws?\s+of\s+(?:the\s+)?(?:state\s+of\s+)?([A-Za-z\s]+)',
\* the optional groups taken or not
gov_law_pattern_governed ==
    LET governed_by == WordSpace(<<"g","o","v","e","r","n","e","d">>) \o WordSpace(<<"b","y">>)
        the         == WordSpace(<<"t","h","e">>)
        state_of    == WordSpace(<<"s","t","a","t","e">>) \o WordSpace(<<"o","f">>)
    IN  <<governed_by \o the \o LawsOf \o the \o state_of \o StateWords,
          governed_by \o the \o LawsOf \o the \o StateWords,
          governed_by \o the \o LawsOf \o state_of \o StateWords,
          governed_by \o the \o LawsOf \o StateWords,
          governed_by \o LawsOf \o the \o state_of \o StateWords,
          governed_by \o LawsOf \o the \o StateWords,
          governed_by \o LawsOf \o state_of \o StateWords,
          governed_by \o LawsOf \o StateWords>>

\* r'construed\s+(?:in\s+)?accordance\s+with\s+(?:the\s+)?laws?\s+of\s+([A-Za-z\s]+)'
gov_law_pattern_construed ==
    LET construed  == WordSpace(<<"c","o","n","s","t","r","u","e","d">>)
        accordance == WordSpace(<<"a","c","c","o","r","d","a","n","c","e">>) \o WordSpace(<<"w","i","t","h">>)
    IN  <<construed \o WordSpace(<<"i","n">>) \o accordance \o WordSpace(<<"t","h","e">>) \o LawsOf \o StateWords,
          construed \o WordSpace(<<"i","n">>) \o accordance \o LawsOf \o StateWords,
          construed \o accordance \o WordSpace(<<"t","h","e">>) \o LawsOf \o StateWords,
          construed \o accordance \o LawsOf \o StateWords>>

\* the body of `for pattern in gov_law_patterns`: the first match decides
pdf_governing_law(alts, text, found) ==
    LET m     == SearchFrom(alts, text, 1)
        state == Lower(Strip(GroupOf(text, m[1], Len(m[1].ends), Len(m[1].ends))))
    IN  IF m = Nothing THEN found
        ELSE IF Contains(state, <<"n","e","w"," ","y","o","r","k">>)
             THEN [jurisdiction |-> "US-NY", governing_law |-> Some("US-NY")]
        ELSE IF Contains(state, <<"d","e","l","a","w","a","r","e">>)
             THEN [jurisdiction |-> "US-DE", governing_law |-> Some("US-DE")]
        ELSE IF Contains(state, <<"c","a","l","i","f","o","r","n","i","a">>)
             THEN [jurisdiction |-> "US-CA", governing_law |-> Some("US-CA")]
        ELSE found

\* PDFLegalParser._extract_jurisdiction_from_text
pdf_extract_jurisdiction(text) ==
    pdf_governing_law(gov_law_pattern_construed, text,
        pdf_governing_law(gov_law_pattern_governed, text,
            [jurisdiction |-> "US", governing_law |-> Nothing]))

\* PDFLegalParser._determine_industry_from_text
pdf_determine_industry(text) ==
    LET text_lower == Lower(text)
    IN  IF Contains(text_lower, <<"i","n","f","r","a","s","t","r","u","c","t","u","r","e">>) THEN "Infrastructure"
        ELSE IF Contains(text_lower, <<"p","o","w","e","r">>) /\ Contains(text_lower, <<"e","l","e","c","t","r","i","c">>) THEN "Power"
        ELSE IF Contains(text_lower, <<"l","n","g">>) \/ Contains(text_lower, <<"n","a","t","u","r","a","l"," ","g","a","s">>) THEN "LNG"
        ELSE IF Contains(text_lower, <<"o","i","l">>) \/ Contains(text_lower, <<"p","e","t","r","o","l","e","u","m">>)
        THEN "Oil & Gas"
        ELSE "General"

\* str.isupper(): a cased character, and no lower-case one
IsUpperStr(str) ==
    /\ \E k \in 1..Len(str) : IsUpper(str[k])
    /\ \A k \in 1..Len(str) : ~IsLower(str[k])

title_scan_lines == 20

title_min_length == 10

\* the title loop of PDFLegalParser._extract_metadata over the first lines
pdf_title(text) ==
    LET all_lines == Split(text, "\n")
        first     == [k \in 1..Min(Len(all_lines), title_scan_lines) |-> Strip(all_lines[k])]
        titles    == {k \in 1..Len(first) :
                         /\ Len(first[k]) > title_min_length
                         /\ IsUpperStr(first[k])
                         /\ Contains(Lower(first[k]), <<"a","g","r","e","e","m","e","n","t">>)}
    IN  IF titles = {} THEN W_unknown_document
        ELSE Title(first[CHOOSE k \in titles : \A j \in titles : k <= j])

\* PDFLegalParser._extract_metadata
pdf_extract_metadata(text, source_file) ==
    LET dates == pdf_extract_dates(text)
        law   == pdf_extract_jurisdiction(text)
    IN  [raised |-> "no", metadata |-> Some(
            [document_id    |-> document_id_of(source_file, <<".","p","d","f">>),
             title          |-> pdf_title(text),
             document_type  |-> "Purchase Agreement",
             jurisdiction   |-> law.jurisdiction,
             governing_law  |-> law.governing_law,
             industry       |-> pdf_determine_industry(text),
             effective_date |-> dates.effective_date,
             execution_date |-> dates.execution_date,
             parties        |-> pdf_extract_parties(text),
             source_file    |-> source_file,
             source_format  |-> "PDF"])]

-----------------------------------------------------------------------------
(* Normalization: DocumentIngestionPipeline._normalize_document            *)

\* LEGAL_TERM_SYNONYMS, in the order of the dictionary: the canonical term as a
\* tag and as characters, and its synonyms
LEGAL_TERM_SYNONYMS ==
    <<[tag |-> "purchase_price_adjustment",
       canonical_term |->
           <<"p","u","r","c","h","a","s","e","_","p","r","i","c","e","_","a","d","j","u","s","t","m","e","n","t">>,
       synonyms |->
           <<<<"t","r","u","e","-","u","p">>,
             <<"p","r","i","c","e"," ","a","d","j","u","s","t","m","e","n","t">>,
             <<"p","u","r","c","h","a","s","e"," ","p","r","i","c","e"," ","t","r","u","e","-","u","p">>>>],
      [tag |-> "material_adverse_effect",
       canonical_term |->
           <<"m","a","t","e","r","i","a","l","_","a","d","v","e","r","s","e","_","e","f","f","e","c","t">>,
       synonyms |->
           <<<<"m","a","t","e","r","i","a","l"," ","a","d","v","e","r","s","e"," ","c","h","a","n","g","e">>,
             <<"M","A","C">>,
             <<"M","A","E">>>>],
      [tag |-> "conditions_precedent",
       canonical_term |->
           <<"c","o","n","d","i","t","i","o","n","s","_","p","r","e","c","e","d","e","n","t">>,
       synonyms |->
           <<<<"c","l","o","s","i","n","g"," ","c","o","n","d","i","t","i","o","n","s">>,
             <<"c","o","n","d","i","t","i","o","n","s"," ","t","o"," ","c","l","o","s","i","n","g">>>>],
      [tag |-> "representations_warranties",
       canonical_term |->
           <<"r","e","p","r","e","s","e","n","t","a","t","i","o","n","s","_","w","a","r","r","a","n","t","i","e","s">>,
       synonyms |->
           <<<<"r","e","p","s"," ","a","n","d"," ","w","a","r","r","a","n","t","i","e","s">>,
             <<"r","e","p","r","e","s","e","n","t","a","t","i","o","n","s">>,
             <<"w","a","r","r","a","n","t","i","e","s">>>>],
      [tag |-> "indemnification",
       canonical_term |->
           <<"i","n","d","e","m","n","i","f","i","c","a","t","i","o","n">>,
       synonyms |->
           <<<<"i","n","d","e","m","n","i","t","y">>,
             <<"i","n","d","e","m","n","i","t","i","e","s">>,
             <<"h","o","l","d"," ","h","a","r","m","l","e","s","s">>>>],
      [tag |-> "force_majeure",
       canonical_term |->
           <<"f","o","r","c","e","_","m","a","j","e","u","r","e">>,
       synonyms |->
           <<<<"a","c","t"," ","o","f"," ","g","o","d">>,
             <<"u","n","f","o","r","e","s","e","e","a","b","l","e"," ","c","i","r","c","u","m","s","t","a","n","c","e","s">>>>],
      [tag |-> "governing_law",
       canonical_term |->
           <<"g","o","v","e","r","n","i","n","g","_","l","a","w">>,
       synonyms |->
           <<<<"a","p","p","l","i","c","a","b","l","e"," ","l","a","w">>,
             <<"c","h","o","i","c","e"," ","o","f"," ","l","a","w">>>>],
      [tag |-> "dispute_resolution",
       canonical_term |->
           <<"d","i","s","p","u","t","e","_","r","e","s","o","l","u","t","i","o","n">>,
       synonyms |->
           <<<<"a","r","b","i","t","r","a","t","i","o","n">>,
             <<"l","i","t","i","g","a","t","i","o","n">>,
             <<"m","e","d","i","a","t","i","o","n">>>>],
      [tag |-> "termination",
       canonical_term |->
           <<"t","e","r","m","i","n","a","t","i","o","n">>,
       synonyms |->
           <<<<"e","x","p","i","r","y">>,
             <<"e","x","p","i","r","a","t","i","o","n">>,
             <<"e","n","d">>>>],
      [tag |-> "assignment",
       canonical_term |->
           <<"a","s","s","i","g","n","m","e","n","t">>,
       synonyms |->
           <<<<"t","r","a","n","s","f","e","r">>,
             <<"n","o","v","a","t","i","o","n">>>>]>>

\* INFRA_FINANCE_TERMS, in the order of the dictionary: term and description
INFRA_FINANCE_TERMS ==
    <<[term |->
           <<"C","R","O","D">>,
       description |->
           <<"C","o","n","t","r","a","c","t"," ","R","a","t","e"," ","o","f"," ","D","e","l","i","v","e","r","y">>],
      [term |->
           <<"t","r","a","n","s","m","i","s","s","i","o","n","_","s","e","r","v","i","c","e">>,
       description |->
           <<"e","l","e","c","t","r","i","c","a","l"," ","t","r","a","n","s","m","i","s","s","i","o","n"," ","s","e","r","v","i","c","e","s">>],
      [term |->
           <<"p","o","i","n","t","_","o","f","_","d","e","l","i","v","e","r","y">>,
       description |->
           <<"d","e","l","i","v","e","r","y"," ","p","o","i","n","t">>],
      [term |->
           <<"b","i","l","l","i","n","g","_","d","e","m","a","n","d">>,
       description |->
           <<"m","a","x","i","m","u","m"," ","d","e","m","a","n","d"," ","c","h","a","r","g","e">>],
      [term |->
           <<"e","n","e","r","g","y","_","c","h","a","r","g","e">>,
       description |->
           <<"e","l","e","c","t","r","i","c","i","t","y"," ","u","s","a","g","e"," ","c","h","a","r","g","e">>],
      [term |->
           <<"c","u","r","t","a","i","l","m","e","n","t">>,
       description |->
           <<"r","e","d","u","c","t","i","o","n"," ","i","n"," ","d","e","l","i","v","e","r","y">>],
      [term |->
           <<"l","i","q","u","i","d","a","t","e","d","_","d","a","m","a","g","e","s">>,
       description |->
           <<"p","r","e","d","e","t","e","r","m","i","n","e","d"," ","d","a","m","a","g","e","s">>],
      [term |->
           <<"p","a","t","r","o","n","a","g","e">>,
       description |->
           <<"c","o","o","p","e","r","a","t","i","v","e"," ","m","e","m","b","e","r"," ","b","e","n","e","f","i","t","s">>],
      [term |->
           <<"o","p","e","r","a","t","i","n","g","_","p","r","o","c","e","d","u","r","e","s">>,
       description |->
           <<"o","p","e","r","a","t","i","o","n","a","l"," ","g","u","i","d","e","l","i","n","e","s">>]>>

\* the tags that term.lower().replace(' ', '_') can spell, with their spelling
InfraTagSpelling ==
    {[tag |-> "crod",
       chars |->
           <<"c","r","o","d">>],
      [tag |-> "transmission_service",
       chars |->
           <<"t","r","a","n","s","m","i","s","s","i","o","n","_","s","e","r","v","i","c","e">>],
      [tag |-> "point_of_delivery",
       chars |->
           <<"p","o","i","n","t","_","o","f","_","d","e","l","i","v","e","r","y">>],
      [tag |-> "billing_demand",
       chars |->
           <<"b","i","l","l","i","n","g","_","d","e","m","a","n","d">>],
      [tag |-> "energy_charge",
       chars |->
           <<"e","n","e","r","g","y","_","c","h","a","r","g","e">>],
      [tag |-> "curtailment",
       chars |->
           <<"c","u","r","t","a","i","l","m","e","n","t">>],
      [tag |-> "liquidated_damages",
       chars |->
           <<"l","i","q","u","i","d","a","t","e","d","_","d","a","m","a","g","e","s">>],
      [tag |-> "patronage",
       chars |->
           <<"p","a","t","r","o","n","a","g","e">>],
      [tag |-> "operating_procedures",
       chars |->
           <<"o","p","e","r","a","t","i","n","g","_","p","r","o","c","e","d","u","r","e","s">>]}

\* the tag spelled by a sequence of characters
TagOf(chars) == (CHOOSE r \in InfraTagSpelling : r.chars = chars).tag

Range(f) == {f[k] : k \in DOMAIN f}

\* _normalize_tags that starts from an empty set instead of set(existing_tags)
normalize_tags_fresh(existing_tags, content) ==
    LET content_lower == Lower(content) IN
    {LEGAL_TERM_SYNONYMS[k].tag : k \in
             {k \in DOMAIN LEGAL_TERM_SYNONYMS :
                 \E j \in DOMAIN LEGAL_TERM_SYNONYMS[k].synonyms :
                     Contains(content_lower, Lower(LEGAL_TERM_SYNONYMS[k].synonyms[j]))}}
    \cup {TagOf(ReplaceChar(Lower(INFRA_FINANCE_TERMS[k].term), " ", "_")) : k \in
             {k \in DOMAIN INFRA_FINANCE_TERMS :
                 \/ Contains(content_lower, Lower(INFRA_FINANCE_TERMS[k].term))
                 \/ Contains(content_lower, Lower(INFRA_FINANCE_TERMS[k].description))}}

\* _normalize_tags: the tags as a set (list(tags) has the set's order)
normalize_tags(existing_tags, content) ==
    LET content_lower == Lower(content) IN
    Range(existing_tags)
    \cup {LEGAL_TERM_SYNONYMS[k].tag : k \in
             {k \in DOMAIN LEGAL_TERM_SYNONYMS :
                 \E j \in DOMAIN LEGAL_TERM_SYNONYMS[k].synonyms :
                     Contains(content_lower, Lower(LEGAL_TERM_SYNONYMS[k].synonyms[j]))}}
    \cup {TagOf(ReplaceChar(Lower(INFRA_FINANCE_TERMS[k].term), " ", "_")) : k \in
             {k \in DOMAIN INFRA_FINANCE_TERMS :
                 \/ Contains(content_lower, Lower(INFRA_FINANCE_TERMS[k].term))
                 \/ Contains(content_lower, Lower(INFRA_FINANCE_TERMS[k].description))}}

\* re.compile(re.escape(synonym), re.IGNORECASE).sub(repl, text): the text from
\* position `from` on, every match replaced, leftmost first and not overlapping
RECURSIVE SubIgnoreCaseFrom(_, _, _, _)
SubIgnoreCaseFrom(text, from, synonym, repl) ==
    LET matches == {p \in from..(Len(text) - Len(synonym) + 1) :
                       Lower(SubSeq(text, p, p + Len(synonym) - 1)) = Lower(synonym)}
        first == CHOOSE p \in matches : \A q \in matches : p <= q
    IN  IF matches = {} THEN SubSeq(text, from, Len(text))
        ELSE SubSeq(text, from, first - 1) \o repl
             \o SubIgnoreCaseFrom(text, first + Len(synonym), synonym, repl)

SubIgnoreCase(text, synonym, repl) == SubIgnoreCaseFrom(text, 1, synonym, repl)

\* the inner loop of _normalize_terminology: the synonyms j.. of one term (the
\* comparison has the substitution computed once, before the next one starts)
RECURSIVE normalize_synonyms(_, _, _)
normalize_synonyms(text, k, j) ==
    LET normalized_text ==
            SubIgnoreCase(text, LEGAL_TERM_SYNONYMS[k].synonyms[j],
                          Title(ReplaceChar(LEGAL_TERM_SYNONYMS[k].canonical_term, "_", " ")))
    IN  IF j > Len(LEGAL_TERM_SYNONYMS[k].synonyms) THEN text
        ELSE IF normalized_text = text THEN normalize_synonyms(text, k, j + 1)
        ELSE normalize_synonyms(normalized_text, k, j + 1)

\* the outer loop of _normalize_terminology: the terms k..
RECURSIVE normalize_terms(_, _)
normalize_terms(text, k) ==
    IF k > Len(LEGAL_TERM_SYNONYMS) THEN text
    ELSE normalize_terms(normalize_synonyms(text, k, 1), k + 1)

normalize_terminology(text) == normalize_terms(text, 1)

\* _normalize_document: the tags of every section from its text as parsed, then
\* the text of every section
normalize_document ==
    /\ seg_pc = "parsed"
    /\ sections' = [n \in 1..Len(sections) |->
                       [sections[n] EXCEPT
                           !.tags = normalize_tags(sections[n].tags, sections[n].text),
                           !.text = normalize_terminology(sections[n].text)]]
    /\ seg_pc' = "normalized"
    /\ UNCHANGED <<fmt, lines, paras, i, current_section, current_content, section_counter>>
    /\ UNCHANGED chunk_vars
    /\ UNCHANGED ing_vars

-----------------------------------------------------------------------------
(* Inputs of the parsers that bear the keywords of the classifiers, of the  *)
(* tag rules and of the definition patterns                                *)

MaxBlocks == 3

\* "3. General."  (a heading whose title holds no keyword)
L_general == <<"3","."," ","G","e","n","e","r","a","l",".">>

\* "Any notice of price."  (a text line that holds the keywords notice and price)
L_notice_body == <<"A","n","y"," ","n","o","t","i","c","e"," ","o","f"," ","p","r","i","c","e",".">>

\* "9. Indemnities."
L_indemnities == <<"9","."," ","I","n","d","e","m","n","i","t","i","e","s",".">>

\* "indemnification. Seller shall indemnify Buyer."
L_indem_body ==
    <<"i","n","d","e","m","n","i","f","i","c","a","t","i","o","n","."," ","S","e","l","l","e",
      "r"," ","s","h","a","l","l"," ","i","n","d","e","m","n","i","f","y"," ","B","u","y","e",
      "r",".">>

\* "2. DEFINITIONS."
L_definitions == <<"2","."," ","D","E","F","I","N","I","T","I","O","N","S",".">>

\* ""MAE" means any event."
L_mae_def ==
    <<"\"","M","A","E","\""," ","m","e","a","n","s"," ","a","n","y"," ","e","v","e","n","t",
      ".">>

\* "4. TERMINATION."  (a heading whose title gives the tag termination)
L_termination == <<"4","."," ","T","E","R","M","I","N","A","T","I","O","N",".">>

\* "All warranties end."  (a text line that holds the synonyms warranties and end)
L_warranties ==
    <<"A","l","l"," ","w","a","r","r","a","n","t","i","e","s"," ","e","n","d",".">>

KeywordLinePool ==
    {L_sale_price, L_general, L_notice_body, L_indemnities, L_indem_body, L_definitions,
     L_mae_def, L_termination, L_warranties}

\* <p xml:id="p1" base="sale_price">Sale Price</p>
P_sale_price ==
    Para(Some(<<"p","1">>), <<"s","a","l","e","_","p","r","i","c","e">>, <<>>,
         <<"S","a","l","e"," ","P","r","i","c","e">>)

\* <p xml:id="p3" toc_number="3">General</p>
P_general ==
    Para(Some(<<"p","3">>), <<>>, <<"3">>,
         <<"G","e","n","e","r","a","l">>)

\* <p>Any notice of price.</p>
P_notice_body ==
    Para(Nothing, <<>>, <<>>,
         <<"A","n","y"," ","n","o","t","i","c","e"," ","o","f"," ","p","r","i","c","e",".">>)

\* <p xml:id="p9" base="indemnities">Article 9</p>
P_indemnities ==
    Para(Some(<<"p","9">>), <<"i","n","d","e","m","n","i","t","i","e","s">>, <<>>,
         <<"A","r","t","i","c","l","e"," ","9">>)

\* <p>indemnification. Seller shall indemnify Buyer.</p>
P_indem_body ==
    Para(Nothing, <<>>, <<>>,
         <<"i","n","d","e","m","n","i","f","i","c","a","t","i","o","n","."," ","S","e","l","l","e","r"," ","s","h","a","l","l"," ","i","n","d","e","m","n","i","f","y"," ","B","u","y","e","r",".">>)

\* <p xml:id="p2" base="definitions">Definitions</p>
P_definitions ==
    Para(Some(<<"p","2">>), <<"d","e","f","i","n","i","t","i","o","n","s">>, <<>>,
         <<"D","e","f","i","n","i","t","i","o","n","s">>)

\* <p>"MAE" means any event.</p>
P_mae_def ==
    Para(Nothing, <<>>, <<>>,
         <<"\"","M","A","E","\""," ","m","e","a","n","s"," ","a","n","y"," ","e","v","e","n","t",".">>)

KeywordParaPool ==
    {P_sale_price, P_general, P_notice_body, P_indemnities, P_indem_body, P_definitions,
     P_mae_def}

\* parse_document on a PDF text or an XML tree of up to MaxBlocks blocks
ParseInit ==
    /\ IngestIdle
    /\ fmt \in {"pdf", "xml"}
    /\ lines \in (IF fmt = "pdf" THEN BoundedSeq(KeywordLinePool, MaxBlocks) ELSE {<<>>})
    /\ paras \in (IF fmt = "xml"
                  THEN {ps \in BoundedSeq(KeywordParaPool, MaxBlocks) : XmlIdsUnique(ps)}
                  ELSE {<<>>})
    /\ ChunkIdle
    /\ i = 1
    /\ current_section = Nothing
    /\ current_content = <<>>
    /\ section_counter = 0
    /\ sections = <<>>
    /\ seg_pc = "loop"

ParseNext ==
    \/ pdf_extract_sections_line
    \/ pdf_extract_sections_return
    \/ xml_extract_sections_elem
    \/ xml_extract_sections_return
    \/ pdf_extract_definitions
    \/ xml_extract_definitions
    \/ normalize_document

SpecParse == ParseInit /\ [][ParseNext]_vars

\* a title, a party, an execution date and a governing law:
\* <p ana="title-page intro-page"> Power Contract </p><p>made as of <date>September 27, 2017</date> by <orgName>Tri-State</orgName>, Seller, of Colorado electric</p><p base="governing law">Colorado law</p>
X_full ==
    [title_elem |-> Some([text |-> Some(<<" ","P","o","w","e","r"," ","C","o","n","t","r","a","c","t"," ">>)]),
     org_names |->
       <<[text |-> Some(<<"T","r","i","-","S","t","a","t","e">>),
          parent_text |-> <<"m","a","d","e"," ","a","s"," ","o","f"," ","S","e","p","t","e","m","b","e","r"," ","2","7",",",
            " ","2","0","1","7"," ","b","y"," ","T","r","i","-","S","t","a","t","e",","," ","S","e","l","l",
            "e","r",","," ","o","f"," ","C","o","l","o","r","a","d","o"," ","e","l","e","c","t","r","i","c">>]>>,
     date_elems |->
       <<[text |-> Some(<<"S","e","p","t","e","m","b","e","r"," ","2","7",","," ","2","0","1","7">>),
          parent_text |-> <<"m","a","d","e"," ","a","s"," ","o","f"," ","S","e","p","t","e","m","b","e","r"," ","2","7",",",
            " ","2","0","1","7"," ","b","y"," ","T","r","i","-","S","t","a","t","e",","," ","S","e","l","l",
            "e","r",","," ","o","f"," ","C","o","l","o","r","a","d","o"," ","e","l","e","c","t","r","i","c">>]>>,
     p_elems |->
       <<[base |-> <<>>, text |-> Some(<<" ","P","o","w","e","r"," ","C","o","n","t","r","a","c","t"," ">>),
          all_text |-> <<" ","P","o","w","e","r"," ","C","o","n","t","r","a","c","t"," ">>],
        [base |-> <<>>, text |-> Some(<<"m","a","d","e"," ","a","s"," ","o","f"," ">>),
          all_text |-> <<"m","a","d","e"," ","a","s"," ","o","f"," ","S","e","p","t","e","m","b","e","r"," ","2","7",",",
            " ","2","0","1","7"," ","b","y"," ","T","r","i","-","S","t","a","t","e",","," ","S","e","l","l",
            "e","r",","," ","o","f"," ","C","o","l","o","r","a","d","o"," ","e","l","e","c","t","r","i","c">>],
        [base |-> <<"g","o","v","e","r","n","i","n","g"," ","l","a","w">>, text |-> Some(<<"C","o","l","o","r","a","d","o"," ","l","a","w">>),
          all_text |-> <<"C","o","l","o","r","a","d","o"," ","l","a","w">>]>>,
     content |-> <<" ","P","o","w","e","r"," ","C","o","n","t","r","a","c","t"," ","m","a","d","e"," ","a","s"," ",
            "o","f"," ","S","e","p","t","e","m","b","e","r"," ","2","7",","," ","2","0","1","7"," ","b","y",
            " ","T","r","i","-","S","t","a","t","e",","," ","S","e","l","l","e","r",","," ","o","f"," ","C",
            "o","l","o","r","a","d","o"," ","e","l","e","c","t","r","i","c","C","o","l","o","r","a","d","o",
            " ","l","a","w">>]

\* no title element, no party, no date, no governing law:
\* <p>Notes</p>
X_bare ==
    [title_elem |-> Nothing,
     org_names |->
       <<>>,
     date_elems |->
       <<>>,
     p_elems |->
       <<[base |-> <<>>, text |-> Some(<<"N","o","t","e","s">>),
          all_text |-> <<"N","o","t","e","s">>]>>,
     content |-> <<"N","o","t","e","s">>]

\* the title element has no text of its own: the title is in a child element:
\* <p ana="title-page intro-page"><hi>Power Contract</hi></p>
X_title_in_child ==
    [title_elem |-> Some([text |-> Nothing]),
     org_names |->
       <<>>,
     date_elems |->
       <<>>,
     p_elems |->
       <<[base |-> <<>>, text |-> Nothing,
          all_text |-> <<"P","o","w","e","r"," ","C","o","n","t","r","a","c","t">>]>>,
     content |-> <<"P","o","w","e","r"," ","C","o","n","t","r","a","c","t">>]

\* dates that do not parse, elements without text, New York law:
\* <p>effective <date>February 30, 2017</date><date>27 September 2017</date><date/><orgName/><orgName>Basin</orgName> buyer</p><p>governing law of New York</p>
X_bad_dates ==
    [title_elem |-> Nothing,
     org_names |->
       <<[text |-> Nothing,
          parent_text |-> <<"e","f","f","e","c","t","i","v","e"," ","F","e","b","r","u","a","r","y"," ","3","0",","," ","2",
            "0","1","7","2","7"," ","S","e","p","t","e","m","b","e","r"," ","2","0","1","7","B","a","s","i",
            "n"," ","b","u","y","e","r">>],
        [text |-> Some(<<"B","a","s","i","n">>),
          parent_text |-> <<"e","f","f","e","c","t","i","v","e"," ","F","e","b","r","u","a","r","y"," ","3","0",","," ","2",
            "0","1","7","2","7"," ","S","e","p","t","e","m","b","e","r"," ","2","0","1","7","B","a","s","i",
            "n"," ","b","u","y","e","r">>]>>,
     date_elems |->
       <<[text |-> Some(<<"F","e","b","r","u","a","r","y"," ","3","0",","," ","2","0","1","7">>),
          parent_text |-> <<"e","f","f","e","c","t","i","v","e"," ","F","e","b","r","u","a","r","y"," ","3","0",","," ","2",
            "0","1","7","2","7"," ","S","e","p","t","e","m","b","e","r"," ","2","0","1","7","B","a","s","i",
            "n"," ","b","u","y","e","r">>],
        [text |-> Some(<<"2","7"," ","S","e","p","t","e","m","b","e","r"," ","2","0","1","7">>),
          parent_text |-> <<"e","f","f","e","c","t","i","v","e"," ","F","e","b","r","u","a","r","y"," ","3","0",","," ","2",
            "0","1","7","2","7"," ","S","e","p","t","e","m","b","e","r"," ","2","0","1","7","B","a","s","i",
            "n"," ","b","u","y","e","r">>],
        [text |-> Nothing,
          parent_text |-> <<"e","f","f","e","c","t","i","v","e"," ","F","e","b","r","u","a","r","y"," ","3","0",","," ","2",
            "0","1","7","2","7"," ","S","e","p","t","e","m","b","e","r"," ","2","0","1","7","B","a","s","i",
            "n"," ","b","u","y","e","r">>]>>,
     p_elems |->
       <<[base |-> <<>>, text |-> Some(<<"e","f","f","e","c","t","i","v","e"," ">>),
          all_text |-> <<"e","f","f","e","c","t","i","v","e"," ","F","e","b","r","u","a","r","y"," ","3","0",","," ","2",
            "0","1","7","2","7"," ","S","e","p","t","e","m","b","e","r"," ","2","0","1","7","B","a","s","i",
            "n"," ","b","u","y","e","r">>],
        [base |-> <<>>, text |-> Some(<<"g","o","v","e","r","n","i","n","g"," ","l","a","w"," ","o","f"," ","N","e","w"," ","Y","o","r",
            "k">>),
          all_text |-> <<"g","o","v","e","r","n","i","n","g"," ","l","a","w"," ","o","f"," ","N","e","w"," ","Y","o","r",
            "k">>]>>,
     content |-> <<"e","f","f","e","c","t","i","v","e"," ","F","e","b","r","u","a","r","y"," ","3","0",","," ","2",
            "0","1","7","2","7"," ","S","e","p","t","e","m","b","e","r"," ","2","0","1","7","B","a","s","i",
            "n"," ","b","u","y","e","r","g","o","v","e","r","n","i","n","g"," ","l","a","w"," ","o","f"," ",
            "N","e","w"," ","Y","o","r","k">>]

\* an ISO date and a natural gas buyer of North Dakota:
\* <p ana="title-page intro-page">Gas</p><p>effective <date> 2017-09-27 </date> natural gas <orgName> Basin </orgName> purchaser North Dakota</p>
X_iso_date ==
    [title_elem |-> Some([text |-> Some(<<"G","a","s">>)]),
     org_names |->
       <<[text |-> Some(<<" ","B","a","s","i","n"," ">>),
          parent_text |-> <<"e","f","f","e","c","t","i","v","e"," "," ","2","0","1","7","-","0","9","-","2","7"," "," ","n",
            "a","t","u","r","a","l"," ","g","a","s"," "," ","B","a","s","i","n"," "," ","p","u","r","c","h",
            "a","s","e","r"," ","N","o","r","t","h"," ","D","a","k","o","t","a">>]>>,
     date_elems |->
       <<[text |-> Some(<<" ","2","0","1","7","-","0","9","-","2","7"," ">>),
          parent_text |-> <<"e","f","f","e","c","t","i","v","e"," "," ","2","0","1","7","-","0","9","-","2","7"," "," ","n",
            "a","t","u","r","a","l"," ","g","a","s"," "," ","B","a","s","i","n"," "," ","p","u","r","c","h",
            "a","s","e","r"," ","N","o","r","t","h"," ","D","a","k","o","t","a">>]>>,
     p_elems |->
       <<[base |-> <<>>, text |-> Some(<<"G","a","s">>),
          all_text |-> <<"G","a","s">>],
        [base |-> <<>>, text |-> Some(<<"e","f","f","e","c","t","i","v","e"," ">>),
          all_text |-> <<"e","f","f","e","c","t","i","v","e"," "," ","2","0","1","7","-","0","9","-","2","7"," "," ","n",
            "a","t","u","r","a","l"," ","g","a","s"," "," ","B","a","s","i","n"," "," ","p","u","r","c","h",
            "a","s","e","r"," ","N","o","r","t","h"," ","D","a","k","o","t","a">>]>>,
     content |-> <<"G","a","s","e","f","f","e","c","t","i","v","e"," "," ","2","0","1","7","-","0","9","-","2","7",
            " "," ","n","a","t","u","r","a","l"," ","g","a","s"," "," ","B","a","s","i","n"," "," ","p","u",
            "r","c","h","a","s","e","r"," ","N","o","r","t","h"," ","D","a","k","o","t","a">>]

\* a title line, a party and a date: 'POWER SALE AGREEMENT\nbetween Acme Inc, ("Seller") dated as of May 1, 2020.'
F_agreement ==
    <<"P","O","W","E","R"," ","S","A","L","E"," ","A","G","R","E","E","M","E","N","T","\n","b","e","t",
            "w","e","e","n"," ","A","c","m","e"," ","I","n","c",","," ","(","\"","S","e","l","l","e","r","\"",
            ")"," ","d","a","t","e","d"," ","a","s"," ","o","f"," ","M","a","y"," ","1",","," ","2","0","2",
            "0",".">>

\* no title line, no party, no date, no governing law: 'Notes. Price list'
F_bare ==
    <<"N","o","t","e","s","."," ","P","r","i","c","e"," ","l","i","s","t">>

\* dates that do not parse, then one that does; New York law: 'effective date of February 30, 2021, the 3 day of Foo, 2019 and the 3 day of June, 2019. governed by the laws of the State of New York.'
F_bad_dates ==
    <<"e","f","f","e","c","t","i","v","e"," ","d","a","t","e"," ","o","f"," ","F","e","b","r","u","a",
            "r","y"," ","3","0",","," ","2","0","2","1",","," ","t","h","e"," ","3"," ","d","a","y"," ","o",
            "f"," ","F","o","o",","," ","2","0","1","9"," ","a","n","d"," ","t","h","e"," ","3"," ","d","a",
            "y"," ","o","f"," ","J","u","n","e",","," ","2","0","1","9","."," ","g","o","v","e","r","n","e",
            "d"," ","b","y"," ","t","h","e"," ","l","a","w","s"," ","o","f"," ","t","h","e"," ","S","t","a",
            "t","e"," ","o","f"," ","N","e","w"," ","Y","o","r","k",".">>

\* Delaware law, a company and a date with an unknown month: 'construed in accordance with laws of Delaware. Oil  LLC (Buyer) effective Foo 1, 2020'
F_delaware ==
    <<"c","o","n","s","t","r","u","e","d"," ","i","n"," ","a","c","c","o","r","d","a","n","c","e"," ",
            "w","i","t","h"," ","l","a","w","s"," ","o","f"," ","D","e","l","a","w","a","r","e","."," ","O",
            "i","l"," "," ","L","L","C"," ","(","B","u","y","e","r",")"," ","e","f","f","e","c","t","i","v",
            "e"," ","F","o","o"," ","1",","," ","2","0","2","0">>

-----------------------------------------------------------------------------
(* Ingestion of a batch of files: batch_ingest, ingest_document and         *)
(* _save_document                                                          *)

MaxFiles == 2

\* The files on disk.  None of them has a section heading or a definition
\* sentence, so their sections and definitions are empty lists.
XmlFiles ==
    {[path |-> <<"a","/","c",".","x","m","l">>, root |-> X_full],
     [path |-> <<"b","/","c",".","x","m","l">>, root |-> X_bare],
     [path |-> <<"a","/","t",".","x","m","l">>, root |-> X_title_in_child],
     [path |-> <<"a","/","d",".","x","m","l">>, root |-> X_bad_dates],
     [path |-> <<"e",".","x","m","l">>, root |-> X_iso_date]}

PdfFiles ==
    {[path |-> <<"a","/","c",".","p","d","f">>, text |-> F_agreement],
     [path |-> <<"b","/","g",".","p","d","f">>, text |-> F_bare],
     [path |-> <<"a","/","f",".","p","d","f">>, text |-> F_bad_dates],
     [path |-> <<"b","/","c",".","p","d","f">>, text |-> F_delaware]}

\* a file of another format, and two paths with no file
P_notes_txt == <<"a","/","n",".","t","x","t">>

P_missing_xml == <<"a","/","m",".","x","m","l">>

P_missing_doc == <<"a","/","m",".","d","o","c">>

PathPool ==
    {f.path : f \in XmlFiles} \cup {f.path : f \in PdfFiles} \cup {P_notes_txt, P_missing_xml, P_missing_doc}

\* file_path.exists()
Exists(file_path) == file_path \notin {P_missing_xml, P_missing_doc}

\* ET.parse(xml_path).getroot()
XmlRootOf(file_path) == (CHOOSE f \in XmlFiles : f.path = file_path).root

\* the text of the pages of fitz.open(pdf_path)
PdfTextOf(file_path) == (CHOOSE f \in PdfFiles : f.path = file_path).text

\* Path(file_path).suffix: the last component from its last dot on
Suffix(file_path) ==
    LET parts == Split(file_path, "/")
        name  == parts[Len(parts)]
        dots  == {k \in 2..Len(name) : name[k] = "."}
    IN  IF dots = {} THEN <<>>
        ELSE SubSeq(name, CHOOSE k \in dots : \A j \in dots : j <= k, Len(name))

\* ingest_document with the extension tested before the existence of the file
parse_file_suffix_first(file_path) ==
    IF Lower(Suffix(file_path)) \notin {<<".","x","m","l">>, <<".","p","d","f">>}
    THEN [raised |-> "ValueError", metadata |-> Nothing]
    ELSE IF ~Exists(file_path) THEN [raised |-> "FileNotFoundError", metadata |-> Nothing]
    ELSE IF Lower(Suffix(file_path)) = <<".","x","m","l">>
         THEN xml_extract_metadata(XmlRootOf(file_path), file_path)
    ELSE pdf_extract_metadata(PdfTextOf(file_path), file_path)

\* the parse of ingest_document: the metadata of the document, or the exception
parse_file(file_path) ==
    IF ~Exists(file_path) THEN [raised |-> "FileNotFoundError", metadata |-> Nothing]
    ELSE IF Lower(Suffix(file_path)) = <<".","x","m","l">>
         THEN xml_extract_metadata(XmlRootOf(file_path), file_path)
    ELSE IF Lower(Suffix(file_path)) = <<".","p","d","f">>
         THEN pdf_extract_metadata(PdfTextOf(file_path), file_path)
    ELSE [raised |-> "ValueError", metadata |-> Nothing]

\* parse_file of every path of the pool
ParsedFiles == {[path |-> p, result |-> parse_file(p)] : p \in PathPool}

\* _save_document: open(output_dir / f"{document_id}.json", 'w') replaces the
\* file of that name
save_document(dir, metadata) ==
    LET output_file == metadata.document_id \o <<".","j","s","o","n">>
    IN  {f \in dir : f.name # output_file}
        \cup {[name |-> output_file, source_file |-> metadata.source_file]}

\* an iteration of batch_ingest without the try/except: an exception of
\* ingest_document leaves the loop
ingest_document_abort ==
    /\ ing_pc = "batch" /\ file_i <= Len(file_paths)
    /\ LET file_path == file_paths[file_i]
           parsed    == (CHOOSE f \in ParsedFiles : f.path = file_path).result
       IN  IF parsed.raised # "no"
           THEN /\ errors' = Append(errors, [file_path |-> file_path, raised |-> parsed.raised])
                /\ ing_pc' = "done"
                /\ UNCHANGED <<documents, output_dir, file_i>>
           ELSE /\ output_dir' = save_document(output_dir, parsed.metadata[1])
                /\ documents' = Append(documents, parsed.metadata[1])
                /\ file_i' = file_i + 1
                /\ UNCHANGED <<errors, ing_pc>>
    /\ UNCHANGED <<file_paths, definitions, workers>>
    /\ UNCHANGED index_vars
    /\ UNCHANGED seg_vars
    /\ UNCHANGED chunk_vars

\* one iteration of `for file_path in file_paths` of batch_ingest: ingest_document
\* parses, normalizes and saves the document; an exception is caught and printed
ingest_document ==
    /\ ing_pc = "batch" /\ file_i <= Len(file_paths)
    /\ LET file_path == file_paths[file_i]
           parsed    == (CHOOSE f \in ParsedFiles : f.path = file_path).result
       IN  IF parsed.raised # "no"
           THEN /\ errors' = Append(errors, [file_path |-> file_path, raised |-> parsed.raised])
                /\ UNCHANGED <<documents, output_dir>>
           ELSE /\ output_dir' = save_document(output_dir, parsed.metadata[1])
                /\ documents' = Append(documents, parsed.metadata[1])
                /\ UNCHANGED errors
    /\ file_i' = file_i + 1
    /\ UNCHANGED <<file_paths, ing_pc, definitions, workers>>
    /\ UNCHANGED index_vars
    /\ UNCHANGED seg_vars
    /\ UNCHANGED chunk_vars

\* `return documents` of batch_ingest
batch_ingest_return ==
    /\ ing_pc = "batch" /\ file_i > Len(file_paths)
    /\ ing_pc' = "done"
    /\ UNCHANGED <<file_paths, file_i, documents, errors, output_dir, definitions, workers>>
    /\ UNCHANGED index_vars
    /\ UNCHANGED seg_vars
    /\ UNCHANGED chunk_vars

IngestInit ==
    /\ SegIdle
    /\ ChunkIdle
    /\ definitions = <<>>
    /\ file_paths \in BoundedSeq(PathPool, MaxFiles)
    /\ file_i = 1 /\ ing_pc = "batch"
    /\ documents = <<>> /\ errors = <<>> /\ output_dir = {}
    /\ workers = <<>>
    /\ IndexIdle

IngestNext ==
    \/ ingest_document
    \/ batch_ingest_return

SpecIngest == IngestInit /\ [][IngestNext]_vars

-----------------------------------------------------------------------------
(* Two calls of ingest_document that run concurrently on one pipeline, each *)
(* on its own file and both on the same output directory                   *)

\* ingest_document of worker t, lines 34-44: the tests of the path and the parser
ingest_parse(t) ==
    /\ ing_pc = "concurrent" /\ workers[t].pc = "start"
    /\ LET parsed == (CHOOSE f \in ParsedFiles : f.path = file_paths[t]).result
       IN  workers' = [workers EXCEPT ![t] =
               [pc       |-> IF parsed.raised = "no" THEN "parsed" ELSE "raised",
                raised   |-> parsed.raised,
                document |-> parsed.metadata]]
    /\ UNCHANGED <<file_paths, file_i, ing_pc, documents, errors, output_dir, definitions>>
    /\ UNCHANGED index_vars
    /\ UNCHANGED seg_vars
    /\ UNCHANGED chunk_vars

\* ingest_document of worker t, line 46: _normalize_document rewrites the tags
\* and the text of the sections of the worker's own document
ingest_normalize(t) ==
    /\ ing_pc = "concurrent" /\ workers[t].pc = "parsed"
    /\ workers' = [workers EXCEPT ![t].pc = "normalized"]
    /\ UNCHANGED <<file_paths, file_i, ing_pc, documents, errors, output_dir, definitions>>
    /\ UNCHANGED index_vars
    /\ UNCHANGED seg_vars
    /\ UNCHANGED chunk_vars

\* ingest_document of worker t, lines 48-50: _save_document and `return document`
ingest_save(t) ==
    /\ ing_pc = "concurrent" /\ workers[t].pc = "normalized"
    /\ output_dir' = save_document(output_dir, workers[t].document[1])
    /\ workers' = [workers EXCEPT ![t].pc = "returned"]
    /\ UNCHANGED <<file_paths, file_i, ing_pc, documents, errors, definitions>>
    /\ UNCHANGED index_vars
    /\ UNCHANGED seg_vars
    /\ UNCHANGED chunk_vars

\* two distinct paths, one per worker, and an empty output directory
ConcurrentInit ==
    /\ SegIdle
    /\ ChunkIdle
    /\ definitions = <<>>
    /\ file_paths \in {<<p, q>> : p, q \in PathPool} /\ file_paths[1] # file_paths[2]
    /\ file_i = 0 /\ ing_pc = "concurrent"
    /\ documents = <<>> /\ errors = <<>> /\ output_dir = {}
    /\ workers = [t \in DOMAIN file_paths |->
                     [pc |-> "start", raised |-> "no", document |-> Nothing]]
    /\ IndexIdle

ConcurrentNext ==
    \E t \in DOMAIN workers :
        \/ ingest_parse(t)
        \/ ingest_normalize(t)
        \/ ingest_save(t)

SpecConcurrent == ConcurrentInit /\ [][ConcurrentNext]_vars

-----------------------------------------------------------------------------
(* Indexing of the chunks into the clauses table: PgIndexer                *)

\* _CLAUSE_MAP, in the order of the dict
CLAUSE_MAP ==
    <<
      [key |-> <<"i","n","d","e","m","n">>, clause_type |-> "Indemnities"],
      [key |-> <<"l","i","a","b","i","l">>, clause_type |-> "Indemnities"],
      [key |-> <<"c","a","p"," ">>, clause_type |-> "Indemnities"],
      [key |-> <<" ","b","a","s","k","e","t">>, clause_type |-> "Indemnities"],
      [key |-> <<"d","e","f","i","n","i","t","i","o","n">>, clause_type |-> "Definitions"],
      [key |-> <<"d","e","f","i","n","i","t">>, clause_type |-> "Definitions"],
      [key |-> <<"p","a","y","m","e","n","t">>, clause_type |-> "Payment"],
      [key |-> <<"p","r","i","c","e">>, clause_type |-> "Payment"],
      [key |-> <<"t","r","u","e","-","u","p">>, clause_type |-> "Payment"],
      [key |-> <<"t","i","t","l","e">>, clause_type |-> "Title & Risk"],
      [key |-> <<"r","i","s","k">>, clause_type |-> "Title & Risk"],
      [key |-> <<"d","e","l","i","v","e","r","y">>, clause_type |-> "Delivery"],
      [key |-> <<"f","o","r","c","e"," ","m","a","j","e","u","r","e">>, clause_type |-> "Force Majeure"],
      [key |-> <<"c","h","a","n","g","e"," ","i","n"," ","l","a","w">>, clause_type |-> "Change in Law"],
      [key |-> <<"g","o","v","e","r","n","i","n","g"," ","l","a","w">>, clause_type |-> "Governing Law"],
      [key |-> <<" ","a","r","b","i","t","r","a","t","i","o","n">>, clause_type |-> "Dispute Resolution"],
      [key |-> <<"d","i","s","p","u","t","e">>, clause_type |-> "Dispute Resolution"],
      [key |-> <<"n","o","t","i","c","e","s">>, clause_type |-> "Notices"],
      [key |-> <<"t","e","r","m","i","n","a","t","i","o","n">>, clause_type |-> "Termination"],
      [key |-> <<"c","o","n","d","i","t","i","o","n","s"," ","p","r","e","c","e","d","e","n","t">>, clause_type |-> "Conditions Precedent"],
      [key |-> <<" ","c","p"," ">>, clause_type |-> "Conditions Precedent"],
      [key |-> <<"i","n","s","u","r","a","n","c","e">>, clause_type |-> "Insurance"],
      [key |-> <<"g","u","a","r","a","n","t","e","e">>, clause_type |-> "Guarantee"],
      [key |-> <<"a","s","s","i","g","n","m","e","n","t">>, clause_type |-> "Assignment"],
      [key |-> <<"a","u","d","i","t">>, clause_type |-> "Audit & Inspection"],
      [key |-> <<"m","e","t","e","r">>, clause_type |-> "Quantity & Metering"],
      [key |-> <<"q","u","a","n","t","i","t","y">>, clause_type |-> "Quantity & Metering"],
      [key |-> <<"q","u","a","l","i","t","y">>, clause_type |-> "Quality & Specs"],
      [key |-> <<"s","p","e","c","i","f","i","c","a","t","i","o","n">>, clause_type |-> "Quality & Specs"],
      [key |-> <<"t","a","x">>, clause_type |-> "Tax"],
      [key |-> <<"s","h","i","p","p","i","n","g">>, clause_type |-> "Shipping/Transport"],
      [key |-> <<"v","e","s","s","e","l">>, clause_type |-> "Shipping/Transport"],
      [key |-> <<"t","a","n","k","e","r">>, clause_type |-> "Shipping/Transport"],
      [key |-> <<"d","e","m","u","r","r","a","g","e">>, clause_type |-> "Shipping/Transport"]>>

\* the first non-None value of a list of optional values
FirstSome(opts) ==
    IF \A k \in DOMAIN opts : opts[k] = Nothing THEN Nothing
    ELSE opts[Least({k \in DOMAIN opts : opts[k] # Nothing})]

\* PgIndexer._infer_clause_type: the type of the first key found, or None
infer_clause_type(title, content) ==
    FirstSome([k \in DOMAIN CLAUSE_MAP |->
                  IF Contains(Lower(title \o <<"\n">> \o content), CLAUSE_MAP[k].key)
                  THEN Some(CLAUSE_MAP[k].clause_type) ELSE Nothing])

\* the match of r'"([A-Z][^"]{1,60})"' that starts at element p, if there is one:
\* its group and the element after it
QuotedTermAt(content, p, run) ==
    IF At(content, p) = "\"" /\ IsUpper(At(content, p + 1)) /\ run \in 1..60
       /\ At(content, p + 2 + run) = "\""
    THEN Some([group |-> SubSeq(content, p + 1, p + 1 + run), next |-> p + 3 + run])
    ELSE Nothing

\* the match of r'\b([A-Z]{2,})\b' that starts at element p, if there is one
UpperWordAt(content, p, run) ==
    IF run >= 2 /\ ~IsWordChar(At(content, p - 1)) /\ ~IsWordChar(At(content, p + run))
    THEN Some([group |-> SubSeq(content, p, p + run - 1), next |-> p + run])
    ELSE Nothing

\* the matches at the elements from..Len(content), by kind of pattern
TermAt(kind, content, p) ==
    IF kind = "quoted" THEN QuotedTermAt(content, p, RunNot(content, p + 2, "\""))
    ELSE UpperWordAt(content, p, Run(content, p, UpperSet))

\* re.findall of one of the two patterns, from element `from` on; TermsAfter
\* continues after the leftmost match at element p (0: no match)
RECURSIVE TermsFrom(_, _, _)
TermsAfter(kind, content, p) ==
    IF p = 0 THEN <<>>
    ELSE <<TermAt(kind, content, p)[1].group>>
         \o TermsFrom(kind, content, TermAt(kind, content, p)[1].next)

TermsFrom(kind, content, from) ==
    TermsAfter(kind, content,
               Least({p \in from..Len(content) : TermAt(kind, content, p) # Nothing}))

\* list(dict.fromkeys(terms)): the first occurrence of every term, in order
RECURSIVE FirstOccurrences(_)
FirstOccurrences(terms) ==
    IF terms = <<>> THEN <<>>
    ELSE IF \E k \in 1..(Len(terms) - 1) : terms[k] = terms[Len(terms)]
         THEN FirstOccurrences(SubSeq(terms, 1, Len(terms) - 1))
    ELSE Append(FirstOccurrences(SubSeq(terms, 1, Len(terms) - 1)), terms[Len(terms)])

\* the non-empty stripped terms
RECURSIVE StrippedTerms(_)
StrippedTerms(terms) ==
    IF terms = <<>> THEN <<>>
    ELSE (IF Strip(terms[1]) # <<>> THEN <<Strip(terms[1])>> ELSE <<>>)
         \o StrippedTerms(Tail(terms))

\* terms[:50]
Capped(terms) == SubSeq(terms, 1, Min(Len(terms), 50))

\* PgIndexer._extract_defined_terms
extract_defined_terms(content) ==
    Capped(FirstOccurrences(StrippedTerms(
        TermsFrom("quoted", content, 1) \o TermsFrom("upper", content, 1))))

\* hashlib.md5(content).hexdigest() and md5() of the database.  MD5 is not
\* computed; a fixed function of the characters (three 16-bit parts) stands for it.
md5_hexdigest(content) == hash_string(content) \o HexStr(Digest(content, 13, 41), 4)

\* "[" + ",".join(f"{x:.8f}" for x in vector) + "]", for vectors of small
\* non-negative whole numbers
embedding_literal(vector) ==
    <<"[">> \o Join([k \in 1..Len(vector) |->
                        IntStr(vector[k]) \o <<".","0","0","0","0","0","0","0","0">>],
                    <<",">>)
    \o <<"]">>

\* the title of the first section of the document with the chunk's section id
section_title_of(doc, section_id) ==
    FirstSome([n \in 1..Len(doc.sections) |->
                  IF doc.sections[n].id = section_id THEN Some(doc.sections[n].title)
                  ELSE Nothing])

\* `section_title or chunk.metadata.section_id`
TitleOr(section_title, section_id) ==
    IF section_title # Nothing /\ section_title[1] # <<>> THEN section_title[1] ELSE section_id

\* the row of index_chunks for chunk number i (from 1), lines 203-233; all the
\* optional columns exist after _ensure_optional_schema
index_row(doc, chunk, embeddings, n) ==
    [id            |-> 0,
     document_id   |-> doc.document_id,
     section_id    |-> chunk.section_id,
     title         |-> TitleOr(section_title_of(doc, chunk.section_id), chunk.section_id),
     content       |-> chunk.content,
     tags          |-> chunk.tags,
     embedding     |-> IF embeddings # <<>> /\ n - 1 < Len(embeddings)
                       THEN Some(embedding_literal(embeddings[n])) ELSE Nothing,
     seq           |-> Some(n),
     clause_type   |-> IF section_title_of(doc, chunk.section_id) = Nothing
                       THEN infer_clause_type(<<>>, chunk.content)
                       ELSE infer_clause_type(section_title_of(doc, chunk.section_id)[1],
                                              chunk.content),
     defined_terms |-> Some(extract_defined_terms(chunk.content)),
     content_hash  |-> Some(md5_hexdigest(chunk.content)),
     heading_number |-> chunk.heading_number,
     heading_level  |-> chunk.heading_level,
     parent_heading_number |-> chunk.parent_heading_number]

\* the columns of the unique index uniq_clause
KeyOf(row) == <<row.document_id, row.section_id, row.content_hash>>

\* INSERT INTO clauses ... with no ON CONFLICT clause and no unique index
insert_row(table, row, id) == table \cup {[row EXCEPT !.id = id]}

\* INSERT INTO clauses ... ON CONFLICT (document_id, section_id, content_hash)
\* DO UPDATE SET title, content, tags, embedding; a new row gets the next id
upsert_row(table, row, id) ==
    IF \E r \in table : KeyOf(r) = KeyOf(row)
    THEN {IF KeyOf(r) = KeyOf(row)
          THEN [r EXCEPT !.title = row.title, !.content = row.content,
                         !.tags = row.tags, !.embedding = row.embedding]
          ELSE r : r \in table}
    ELSE table \cup {[row EXCEPT !.id = id]}

\* UPDATE clauses SET content_hash = md5(coalesce(content,'')) WHERE content_hash IS NULL
backfill_hashes(table) ==
    {IF r.content_hash = Nothing THEN [r EXCEPT !.content_hash = Some(md5_hexdigest(r.content))]
     ELSE r : r \in table}

\* DELETE ... WHERE rn > 1: of the rows of one key, the one of the least id stays
remove_duplicates(table) ==
    {r \in table : \A o \in table : KeyOf(o) = KeyOf(r) => r.id <= o.id}

\* PgIndexer._ensure_optional_schema on the rows of the table
ensure_optional_schema(table) == remove_duplicates(backfill_hashes(table))

\* calls of index_chunks in one run
MaxIndexCalls == 2

\* 'The "Seller" shall indemnify the BUYER.'
X_indemnify == <<"T","h","e"," ","\"","S","e","l","l","e","r","\""," ","s","h","a","l","l"," ","i","n","d","e","m","n","i","f","y"," ","t","h","e"," ","B","U","Y","E","R",".">>

\* 'PPA rates apply. "Ab" and PPA.'
X_rates == <<"P","P","A"," ","r","a","t","e","s"," ","a","p","p","l","y","."," ","\"","A","b","\""," ","a","n","d"," ","P","P","A",".">>

IndexSection == [Sec(Id_A, X_indemnify) EXCEPT !.title = <<>>]

IndexDocument == Doc(<<IndexSection, Sec(Id_5, X_rates)>>, <<>>)

Chunk_A == clause_chunk(IndexDocument, IndexSection, no_heading, 0, X_indemnify)

\* a chunk of the key of Chunk_A with other tags
Chunk_A_retagged == [Chunk_A EXCEPT !.tags = <<"indemnification">>]

Chunk_5 == clause_chunk(IndexDocument, Sec(Id_5, X_rates), section_heading(Sec(Id_5, X_rates)).value, 0, X_rates)

\* a chunk of a section that the document does not have
Chunk_stray == [Chunk_5 EXCEPT !.section_id = Id_11_4]

\* the arguments of a call of index_chunks: without embeddings, with one
\* embedding per chunk, with fewer embeddings than chunks
IndexArgs ==
    {[document |-> IndexDocument, chunks |-> <<Chunk_A, Chunk_5>>, embeddings |-> <<>>],
     [document |-> IndexDocument, chunks |-> <<Chunk_A, Chunk_5>>,
      embeddings |-> << <<1, 0>>, <<0, 12>> >>],
     [document |-> IndexDocument, chunks |-> <<Chunk_A, Chunk_A_retagged>>,
      embeddings |-> << <<3>> >>],
     [document |-> IndexDocument, chunks |-> <<Chunk_stray>>, embeddings |-> <<>>]}

\* a row written before the optional columns existed
LegacyRow(id, section_id, title, content) ==
    [id |-> id, document_id |-> IndexDocument.document_id, section_id |-> section_id,
     title |-> title, content |-> content, tags |-> <<>>, embedding |-> Nothing,
     seq |-> Nothing, clause_type |-> Nothing, defined_terms |-> Nothing,
     content_hash |-> Nothing,
     heading_number |-> Nothing, heading_level |-> Nothing,
     parent_heading_number |-> Nothing]

\* the table before the first call: empty, or rows of an earlier version of the
\* indexer, two of them of one document, section and content
InitialTables ==
    {{},
     {LegacyRow(1, Id_A, <<"o","l","d">>, X_indemnify),
      LegacyRow(2, Id_A, <<"n","e","w">>, X_indemnify),
      LegacyRow(3, Id_5, <<"T","e","r","m">>, X_rates)}}

\* index_chunks is called: _ensure_optional_schema, then the loop over the
\* chunks starts
index_chunks_call ==
    /\ idx_pc = "ready" /\ Len(idx_log) < MaxIndexCalls
    /\ \E args \in IndexArgs : idx_args' = args
    /\ clauses' = ensure_optional_schema(clauses)
    /\ idx_pc' = "insert" /\ idx_i' = 1
    /\ UNCHANGED <<next_id, idx_log>>
    /\ UNCHANGED <<definitions, file_paths, file_i, ing_pc, documents, errors, output_dir, workers>>
    /\ UNCHANGED seg_vars
    /\ UNCHANGED chunk_vars

\* one iteration of `for i, chunk in enumerate(chunks, start=1)`; the sequence
\* of the id column advances at every INSERT, also at one that meets a conflict
index_chunks_row ==
    /\ idx_pc = "insert" /\ idx_i <= Len(idx_args.chunks)
    /\ clauses' = upsert_row(clauses,
                             index_row(idx_args.document, idx_args.chunks[idx_i],
                                       idx_args.embeddings, idx_i),
                             next_id)
    /\ next_id' = next_id + 1
    /\ idx_i' = idx_i + 1
    /\ UNCHANGED <<idx_pc, idx_args, idx_log>>
    /\ UNCHANGED <<definitions, file_paths, file_i, ing_pc, documents, errors, output_dir, workers>>
    /\ UNCHANGED seg_vars
    /\ UNCHANGED chunk_vars

\* the loop is exhausted: the connection commits and index_chunks returns
index_chunks_return ==
    /\ idx_pc = "insert" /\ idx_i > Len(idx_args.chunks)
    /\ idx_pc' = "ready"
    /\ idx_log' = Append(idx_log, [args |-> idx_args, clauses |-> clauses])
    /\ UNCHANGED <<clauses, next_id, idx_i, idx_args>>
    /\ UNCHANGED <<definitions, file_paths, file_i, ing_pc, documents, errors, output_dir, workers>>
    /\ UNCHANGED seg_vars
    /\ UNCHANGED chunk_vars

IndexInit ==
    /\ SegIdle
    /\ ChunkIdle
    /\ definitions = <<>>
    /\ file_paths = <<>> /\ file_i = 0 /\ ing_pc = "idle"
    /\ documents = <<>> /\ errors = <<>> /\ output_dir = {}
    /\ workers = <<>>
    /\ clauses \in InitialTables
    /\ next_id = 1 + Cardinality(clauses)
    /\ idx_pc = "ready" /\ idx_i = 0
    /\ idx_args = NoIndexArgs
    /\ idx_log = <<>>

IndexNext ==
    \/ index_chunks_call
    \/ index_chunks_row
    \/ index_chunks_return

SpecIndex == IndexInit /\ [][IndexNext]_vars

-----------------------------------------------------------------------------
(* The whole model: a run of one of the segmenters, of the chunker, of a    *)
(* parser, of a batch of ingestions or of two concurrent ingestions        *)

Init == SegInit \/ ChunkInit \/ ParseInit \/ IngestInit \/ ConcurrentInit \/ IndexInit

Next == SegNext \/ ChunkNext \/ ParseNext \/ IngestNext \/ ConcurrentNext \/ IndexNext

Spec == Init /\ [][Next]_vars

-----------------------------------------------------------------------------
(* Properties of the chunker                                               *)

SectionText(n) == document.sections[n].text

SectionId(n) == document.sections[n].id

\* the chunks of the sections before section n
RECURSIVE ChunkOffset(_)
ChunkOffset(n) == IF n <= 1 THEN 0 ELSE ChunkOffset(n - 1) + log[n - 1].nchunks

\* the chunks the current call has made of section n
SectionChunks(n) == SubSeq(chunks, ChunkOffset(n) + 1, ChunkOffset(n) + log[n].nchunks)

Chunked == 1..Len(log)

IsNumber(str) == str # <<>> /\ \A k \in 1..Len(str) : IsDigit(str[k])

Dots(str) == {k \in 1..Len(str) : str[k] = "."}

\* a dotted number with two or more components: digits around every dot
IsDottedNumber(str) ==
    /\ Dots(str) # {}
    /\ \A k \in 1..Len(str) : IsDigit(str[k]) \/ str[k] = "."
    /\ \A k \in Dots(str) : IsDigit(At(str, k - 1)) /\ IsDigit(At(str, k + 1))

LastDot(str) == CHOOSE k \in Dots(str) : \A j \in Dots(str) : j <= k

\* C4: the chunks of a section whose identifier is a dotted number carry the
\* identifier as heading number, its number of components as level and the
\* identifier without its last component as parent, whatever the text
C4_DottedIdGivesAnchor ==
    \A n \in Chunked :
        IsDottedNumber(SectionId(n)) =>
            \A k \in 1..Len(SectionChunks(n)) :
                LET c == SectionChunks(n)[k] IN
                /\ c.heading_number = Some(SectionId(n))
                /\ c.heading_level = Some(Cardinality(Dots(SectionId(n))) + 1)
                /\ c.parent_heading_number =
                       Some(SubSeq(SectionId(n), 1, LastDot(SectionId(n)) - 1))

\* section 11.4.2 whose text opens with another dotted number, 7.1
C4_Witness ==
    \E n \in Chunked :
        /\ SectionId(n) = Id_11_4_2 /\ SectionText(n) = T_first
        /\ Len(SectionChunks(n)) = 1
        /\ SectionChunks(n)[1].heading_level = Some(3)
        /\ SectionChunks(n)[1].parent_heading_number = Some(Id_11_4)

\* C5: the chunks of a section whose identifier is one number without dots
\* have heading level 1 and no parent heading, whatever the text
C5_PlainNumberIsLevelOne ==
    \A n \in Chunked :
        IsNumber(SectionId(n)) =>
            \A k \in 1..Len(SectionChunks(n)) :
                /\ SectionChunks(n)[k].heading_level = Some(1)
                /\ SectionChunks(n)[k].parent_heading_number = Nothing

\* the offsets of window w that lie in the text and hold no whitespace
NonBlankOffsets(text, w) ==
    {k \in w.start..(Min(w.end, Len(text)) - 1) : ~IsSpace(text[k + 1])}

NonBlankWindows(text, ws) == {k \in 1..Len(ws) : NonBlankOffsets(text, ws[k]) # {}}

\* C6 as stated: 1000 characters give exactly one chunk, 1001 at least two
C6_ThresholdBoundary ==
    \A n \in Chunked :
        /\ Len(SectionText(n)) = max_chunk_size => log[n].nchunks = 1
        /\ Len(SectionText(n)) = max_chunk_size + 1 => log[n].nchunks >= 2

\* C6 amended: 1000 characters give exactly one chunk; 1001 characters give two
\* windows and one chunk for each window that is not all whitespace
C6_ThresholdBoundaryNonBlank ==
    \A n \in Chunked :
        /\ Len(SectionText(n)) = max_chunk_size =>
               /\ log[n].nchunks = 1
               /\ SectionChunks(n)[1].content = SectionText(n)
        /\ Len(SectionText(n)) = max_chunk_size + 1 =>
               /\ Len(log[n].windows) = 2
               /\ log[n].nchunks =
                      Cardinality(NonBlankWindows(SectionText(n), log[n].windows))

\* 1001 characters with a period in the look-back range: two chunks
C6_Witness ==
    \E n \in Chunked :
        /\ Len(SectionText(n)) = max_chunk_size + 1
        /\ log[n].nchunks = 2
        /\ log[n].windows[1].end < max_chunk_size

\* the windows that became chunks, in order
RECURSIVE Kept(_)
Kept(ws) == IF ws = <<>> THEN <<>>
            ELSE (IF ws[1].kept THEN <<ws[1]>> ELSE <<>>) \o Kept(Tail(ws))

\* windows advance, each begins no later than the one before it ends, the last
\* one reaches the end of the text
WindowsAdvance(text, ws) ==
    /\ ws # <<>>
    /\ ws[1].start = 0
    /\ \A k \in 1..(Len(ws) - 1) :
           ws[k].start < ws[k + 1].start /\ ws[k + 1].start <= ws[k].end
    /\ ws[Len(ws)].end >= Len(text)

\* C7 as stated: the chunk contents, overlaps removed, are the whole text
C7_ContentsReproduceText ==
    \A n \in Chunked :
        Len(SectionText(n)) > max_chunk_size =>
            LET kept == Kept(log[n].windows) IN
            /\ WindowsAdvance(SectionText(n), log[n].windows)
            /\ kept # <<>>
            /\ kept[1].from = 0
            /\ \A k \in 1..(Len(kept) - 1) : kept[k + 1].from <= kept[k].to
            /\ kept[Len(kept)].to = Len(SectionText(n))

\* C7 amended: the windows advance and cover the text; each chunk is its window
\* without the whitespace at its two ends, so that every character of the text
\* that is in no chunk is whitespace
C7_ContentsCoverNonBlank ==
    \A n \in Chunked :
        IF Len(SectionText(n)) <= max_chunk_size
        THEN SectionChunks(n)[1].content = SectionText(n)
        ELSE LET kept == Kept(log[n].windows) IN
             /\ WindowsAdvance(SectionText(n), log[n].windows)
             /\ Len(kept) = log[n].nchunks
             /\ \A k \in 1..Len(kept) :
                    SectionChunks(n)[k].content =
                        Slice(SectionText(n), kept[k].from, kept[k].to)
             /\ \A o \in 0..(Len(SectionText(n)) - 1) :
                    ~IsSpace(SectionText(n)[o + 1]) =>
                        \E k \in 1..Len(kept) : kept[k].from <= o /\ o < kept[k].to

\* a split section that loses whitespace between two chunks
C7_Witness ==
    \E n \in Chunked :
        LET kept == Kept(log[n].windows) IN
        /\ Len(kept) >= 2
        /\ kept[2].from > kept[1].to

\* C8 as stated: 2300 characters give exactly 3 chunks, starts non-decreasing,
\* each overlapping the one before by 0 to 100 characters
C8_ThreeChunks ==
    \A n \in Chunked :
        Len(SectionText(n)) = 2300 =>
            LET ws == log[n].windows IN
            /\ log[n].nchunks = 3
            /\ \A k \in 1..(Len(ws) - 1) :
                   /\ ws[k].start <= ws[k + 1].start
                   /\ ws[k].end - ws[k + 1].start >= 0
                   /\ ws[k].end - ws[k + 1].start <= chunk_overlap

\* C8 amended: 2300 characters give exactly 3 windows and one chunk for each
\* window that is not all whitespace; starts are non-decreasing and consecutive
\* windows, and the chunks cut from them, overlap by 0 to 100 characters
C8_ThreeWindows ==
    /\ (ck_pc = "split" /\ Len(SectionText(sec_i)) = 2300) => Len(wins) <= 3
    /\ \A n \in Chunked :
        Len(SectionText(n)) = 2300 =>
            LET ws == log[n].windows IN
            /\ Len(ws) = 3
            /\ log[n].nchunks = Cardinality(NonBlankWindows(SectionText(n), ws))
            /\ \A k \in 1..(Len(ws) - 1) :
                   /\ ws[k].start <= ws[k + 1].start
                   /\ ws[k].end - ws[k + 1].start >= 0
                   /\ ws[k].end - ws[k + 1].start <= chunk_overlap
                   /\ (ws[k].kept /\ ws[k + 1].kept) =>
                          ws[k].to - ws[k + 1].from <= chunk_overlap

\* 2300 characters, both inner windows cut back to a period: 3 chunks
C8_Witness ==
    \E n \in Chunked :
        /\ Len(SectionText(n)) = 2300
        /\ log[n].nchunks = 3
        /\ log[n].windows[1].end = 951
        /\ log[n].windows[2].end = 1851

C10_NeverRaises ==
    /\ ck_pc # "raised"
    /\ \A n \in Chunked : SectionText(n) = <<>> => log[n].nchunks <= 1
    /\ (ck_pc = "section" /\ sec_i > 1) => Len(log) = sec_i - 1

\* both calls done on a document with a section of empty text
C10_Witness ==
    /\ ck_pc = "done"
    /\ \E n \in Chunked : SectionText(n) = <<>> /\ log[n].nchunks = 1
                          /\ SectionChunks(n)[1].content = <<>>

\* C11: no clause chunk has empty or whitespace-only content, for short and
\* long section texts alike
C11_NoBlankClauseChunk ==
    \A k \in 1..Len(chunks) :
        chunks[k].chunk_type = "clause" => Strip(chunks[k].content) # <<>>

\* C12: the content of every chunk, clause or definition, is at most the size
\* threshold long
C12_ChunkWithinThreshold ==
    \A k \in 1..Len(chunks) : Len(chunks[k].content) <= max_chunk_size

-----------------------------------------------------------------------------
(* Properties of the parsers and of normalization                          *)

HasPurchaseOrSale(title) ==
    Contains(Lower(title), W_purchase) \/ Contains(Lower(title), W_sale)

\* C13: in both parsers a title that holds a purchase-or-sale keyword and a
\* price keyword is classified Purchase and Sale, never Price
C13_PurchaseSaleBeforePrice ==
    \A n \in 1..Len(sections) :
        (HasPurchaseOrSale(sections[n].title) /\ Contains(Lower(sections[n].title), W_price))
            => sections[n].clause_type = "Purchase and Sale"

\* the clause type the ordered rules of the running parser give a string
RuleType(str) ==
    IF fmt = "pdf" THEN pdf_classify_clause_type(str) ELSE xml_classify_clause_type(str, <<>>)

\* C14: the rules are tried on the title and, when none matches it, on the
\* content; the type is Other only when no rule matches either
C14_TitleThenContent ==
    SegDone =>
        \A n \in 1..Len(sections) :
            sections[n].clause_type =
                IF RuleType(sections[n].title) # "Other" THEN RuleType(sections[n].title)
                ELSE RuleType(sections[n].text)

W_indemnities == <<"i","n","d","e","m","n","i","t","i","e","s">>

W_indemnification == <<"i","n","d","e","m","n","i","f","i","c","a","t","i","o","n">>

W_shall_indemnify == <<"s","h","a","l","l"," ","i","n","d","e","m","n","i","f","y">>

\* C15: a section titled Indemnities whose text mentions indemnification and
\* shall indemnify has clause type Indemnities and, once parsed and normalized,
\* the tag indemnification
C15_IndemnitiesExample ==
    seg_pc = "normalized" =>
        \A n \in 1..Len(sections) :
            (/\ Lower(sections[n].title) = W_indemnities
             /\ Contains(Lower(sections[n].text), W_indemnification)
             /\ Contains(Lower(sections[n].text), W_shall_indemnify))
                => /\ sections[n].clause_type = "Indemnities"
                   /\ "indemnification" \in sections[n].tags

\* the term MAE of the input line `"MAE" means any event.`
T_MAE_term == <<"M","A","E">>

\* block k of the input is the heading of a Definitions section and block k + 1,
\* inside that section, is `"MAE" means any event.`
MaeDefinedAt(k) ==
    IF fmt = "pdf"
    THEN k + 1 <= Len(lines) /\ lines[k] = L_definitions /\ lines[k + 1] = L_mae_def
    ELSE k + 1 <= Len(paras) /\ paras[k] = P_definitions /\ paras[k + 1] = P_mae_def

\* a Definition with the term MAE carries the id of a section whose title
\* contains 'definition'
MaeExtracted ==
    \E d \in 1..Len(definitions) : \E n \in 1..Len(sections) :
        /\ definitions[d].term = T_MAE_term
        /\ definitions[d].section_id = Some(sections[n].id)
        /\ Contains(Lower(sections[n].title), W_definition)

\* C16: a `"T" means ... .` sentence inside a section whose title contains
\* 'definition' yields a Definition with the term T and the id of that section,
\* wherever the section sits in the document.
C16_DefinitionOfEverySection ==
    (seg_pc \in {"parsed", "normalized"} /\ \E k \in 1..MaxBlocks : MaeDefinedAt(k))
        => MaeExtracted

-----------------------------------------------------------------------------
(* Properties of the definition chunks and of the chunk identifiers        *)

\* the number of clause chunks of the list
ClauseCount == Cardinality({k \in 1..Len(chunks) : chunks[k].chunk_type = "clause"})

\* the term in lower case with an underscore for each space
UnderscoredTerm(term) ==
    [k \in 1..Len(term) |-> IF term[k] = " " THEN "_" ELSE LowerChar(term[k])]

\* the chunk is the definition chunk of Definition d, but for its section id
IsDefinitionChunkOf(chunk, d) ==
    /\ chunk.chunk_type = "definition"
    /\ chunk.content = <<"\"">> \o d.term \o <<"\"">> \o <<" ","m","e","a","n","s"," ">>
                       \o d.definition
    /\ Range(chunk.tags) = {W_definition, UnderscoredTerm(d.term)}
    /\ chunk.chunk_index = 0
    /\ chunk.heading_number = Nothing
    /\ chunk.heading_level = Nothing
    /\ chunk.parent_heading_number = Nothing

\* the list is the clause chunks followed by one chunk per Definition, in
\* definition order, each with the section id given by OwningSection
DefinitionChunksLast(OwningSection(_)) ==
    /\ Len(chunks) = ClauseCount + Len(document.definitions)
    /\ \A k \in 1..ClauseCount : chunks[k].chunk_type = "clause"
    /\ \A k \in 1..Len(document.definitions) :
           /\ IsDefinitionChunkOf(chunks[ClauseCount + k], document.definitions[k])
           /\ chunks[ClauseCount + k].section_id = OwningSection(document.definitions[k])

\* the Definition's section id, the sentinel when it is None
SectionIdOrSentinel(d) ==
    IF d.section_id = Nothing THEN W_definitions ELSE d.section_id[1]

\* the Definition's section id, the sentinel when it is None or the empty string
NonEmptySectionIdOrSentinel(d) ==
    IF d.section_id = Nothing \/ d.section_id = Some(<<>>) THEN W_definitions
    ELSE d.section_id[1]

\* C17 (as claimed): chunk_document emits one chunk per Definition, in
\* definition order and after all clause chunks, of type 'definition', with
\* content '"Term" means Definition', tags {definition, underscored lower-case
\* term}, index 0, no heading anchor, and the Definition's section id, or the
\* sentinel 'definitions' when it has none.
C17_DefinitionChunks ==
    ck_pc = "done" => DefinitionChunksLast(SectionIdOrSentinel)

\* C17 (amended): the same, with the sentinel 'definitions' also when the
\* Definition's section id is the empty string.
C17_DefinitionChunksNonEmptyId ==
    ck_pc = "done" => DefinitionChunksLast(NonEmptySectionIdOrSentinel)

C17_Witness ==
    /\ ck_pc = "done"
    /\ ClauseCount >= 1
    /\ Len(document.definitions) = 2
    /\ document.definitions[1].section_id = Some(<<>>)
    /\ \E k \in 1..Len(document.definitions[1].term) : document.definitions[1].term[k] = " "
    /\ document.definitions[2].section_id \notin {Nothing, Some(<<>>)}
    /\ chunks[Len(chunks) - 1].section_id = W_definitions
    /\ chunks[Len(chunks)].section_id = document.definitions[2].section_id[1]

\* C18: in the list returned by chunk_document no two chunks share their
\* chunk_id, also when the document defines the same term more than once.
C18_ChunkIdsUnique ==
    ck_pc = "done" =>
        \A j, k \in 1..Len(chunks) : j # k => chunks[j].chunk_id # chunks[k].chunk_id

-----------------------------------------------------------------------------
(* Properties of metadata extraction and of the batch ingestion            *)

\* the metadata of a document in which no field could be resolved
HasDefaults(metadata) ==
    /\ metadata.title = W_unknown_document
    /\ metadata.jurisdiction = "US"
    /\ metadata.governing_law = Nothing
    /\ metadata.industry \in {"Energy", "General"}
    /\ metadata.parties = <<>>
    /\ metadata.effective_date = Nothing
    /\ metadata.execution_date = Nothing

\* the document was parsed from a file in which nothing can be resolved
FromBareFile(metadata) ==
    \/ metadata.source_format = "XML" /\ XmlRootOf(metadata.source_file) = X_bare
    \/ metadata.source_format = "PDF" /\ PdfTextOf(metadata.source_file) = F_bare

\* C19: metadata extraction never raises, whatever the file holds (a title
\* element without text, no parties, dates that do not parse, no governing-law
\* phrase): the only exceptions of an ingestion are those of a missing file and
\* of an unsupported format; and unresolved fields have their defaults.
C19_MetadataTotal ==
    /\ \A k \in 1..Len(errors) : errors[k].raised \in {"FileNotFoundError", "ValueError"}
    /\ \A k \in 1..Len(documents) : FromBareFile(documents[k]) => HasDefaults(documents[k])

\* C20: two documents ingested from the same path have the same identifier, two
\* documents ingested from distinct paths have distinct identifiers, and the
\* output of every ingested document is on disk, not overwritten by another's.
C20_DocumentIdPerFile ==
    /\ \A j, k \in 1..Len(documents) :
           (documents[j].source_file = documents[k].source_file)
               <=> (documents[j].document_id = documents[k].document_id)
    /\ \A k \in 1..Len(documents) :
           \E f \in output_dir :
               /\ f.name = documents[k].document_id \o <<".","j","s","o","n">>
               /\ f.source_file = documents[k].source_file

\* the outcome of ingest_document on a path: its document, or its exception
OutcomeOf(file_path) == (CHOOSE f \in ParsedFiles : f.path = file_path).result

\* the files of the batch attempted so far that succeeded, and those that failed
Succeeded == {k \in 1..(file_i - 1) : OutcomeOf(file_paths[k]).raised = "no"}

Failed == {k \in 1..(file_i - 1) : OutcomeOf(file_paths[k]).raised # "no"}

\* C21: a failure on one file does not end the batch.  The files are attempted
\* one by one in input order, whatever happened to the earlier ones: the
\* documents collected so far are those of the attempted files that succeeded,
\* in input order, every failure was caught and belongs to its own file, and
\* batch_ingest returns only after the last file of the list was attempted.
C21_BatchSurvivesFailures ==
    /\ file_i \in 1..(Len(file_paths) + 1)
    /\ Len(documents) = Cardinality(Succeeded)
    /\ \A n \in 1..Len(documents) :
           documents[n] = OutcomeOf(file_paths[Nth(Succeeded, n)]).metadata[1]
    /\ Len(errors) = Cardinality(Failed)
    /\ \A n \in 1..Len(errors) :
           /\ errors[n].file_path = file_paths[Nth(Failed, n)]
           /\ errors[n].raised = OutcomeOf(errors[n].file_path).raised
    /\ ing_pc = "done" => file_i = Len(file_paths) + 1

\* a batch has returned whose first file failed and whose second file succeeded
C21_Witness ==
    /\ ing_pc = "done" /\ Len(file_paths) = 2
    /\ OutcomeOf(file_paths[1]).raised # "no"
    /\ documents = <<OutcomeOf(file_paths[2]).metadata[1]>>
    /\ Len(errors) = 1

\* the iteration of the batch that is about to ingest a path
Ingesting(file_path) ==
    ing_pc = "batch" /\ file_i <= Len(file_paths) /\ file_paths[file_i] = file_path

\* the ingestion fails with the exception, and leaves the collected documents
\* and the output directory as they were
FailsWith(file_path, exception) ==
    /\ errors' = Append(errors, [file_path |-> file_path, raised |-> exception])
    /\ UNCHANGED <<documents, output_dir>>

\* C22: ingest_document on a path with no file fails with FileNotFoundError
\* (NotFound), whatever the extension of the path; on a file whose extension is
\* neither .xml nor .pdf it fails with ValueError (UnsupportedFormat); in both
\* cases no document is produced and no output file is written.
C22_NotFoundThenUnsupported ==
    [][\A p \in PathPool :
          Ingesting(p) =>
              /\ ~Exists(p) => FailsWith(p, "FileNotFoundError")
              /\ (Exists(p) /\ Lower(Suffix(p)) \notin {<<".","x","m","l">>, <<".","p","d","f">>})
                     => FailsWith(p, "ValueError")]_vars

\* a batch has ingested a missing path of an unknown extension and a file of an
\* unknown extension, and wrote nothing
C22_Witness ==
    /\ ing_pc = "done"
    /\ errors = <<[file_path |-> P_missing_doc, raised |-> "FileNotFoundError"],
                  [file_path |-> P_notes_txt, raised |-> "ValueError"]>>
    /\ documents = <<>> /\ output_dir = {}

-----------------------------------------------------------------------------
(* Properties of the normalization                                         *)

\* a list of the elements of a set, in some order
AnyList(S) == CHOOSE list \in [1..Cardinality(S) -> S] : Range(list) = S

\* one of the synonyms of the k-th canonical term occurs in the content,
\* whatever the case of its letters
SynonymOccurs(k, content) ==
    \E j \in DOMAIN LEGAL_TERM_SYNONYMS[k].synonyms :
        Contains(Lower(content), Lower(LEGAL_TERM_SYNONYMS[k].synonyms[j]))

\* the tags `after` are the augmentation of the tags `before` by the content
IsAugmentation(before, content, after) ==
    /\ before \subseteq after
    /\ \A k \in DOMAIN LEGAL_TERM_SYNONYMS :
           (LEGAL_TERM_SYNONYMS[k].tag \in after)
               <=> (LEGAL_TERM_SYNONYMS[k].tag \in before \/ SynonymOccurs(k, content))
    /\ normalize_tags(AnyList(after), content) = after

\* C23: tag augmentation is a set union.  The tags that _normalize_document gives
\* a section hold every tag the section had, hold a canonical term exactly when
\* the section had it or one of its synonyms occurs in the section's text in any
\* case, and _normalize_tags applied to them again with the same text returns
\* the same set.
C23_TagAugmentation ==
    [][(seg_pc = "parsed" /\ seg_pc' = "normalized") =>
          \A n \in 1..Len(sections) :
              IsAugmentation(Range(sections[n].tags), sections[n].text, sections'[n].tags)]_seg_pc

\* a document was normalized of which one section kept a canonical term it had
\* and got another one, from a synonym in its text
C23_Witness ==
    /\ seg_pc = "normalized"
    /\ \E n \in 1..Len(sections) :
           /\ sections[n].title = <<"T","E","R","M","I","N","A","T","I","O","N">>
           /\ sections[n].tags = {"termination", "representations_warranties"}

-----------------------------------------------------------------------------
(* Properties of the provenance of the clause chunks                       *)

\* everything of a chunk but its index, its identifier and its content
Provenance(chunk) ==
    [document_id     |-> chunk.document_id,
     section_id      |-> chunk.section_id,
     chunk_type      |-> chunk.chunk_type,
     tags            |-> chunk.tags,
     source_citation |-> chunk.source_citation,
     heading_number  |-> chunk.heading_number,
     heading_level   |-> chunk.heading_level,
     parent_heading_number |-> chunk.parent_heading_number]

\* the provenance the chunks of section n inherit: the section's heading anchor
\* is the one computed from the whole section
SectionProvenance(n) ==
    [document_id     |-> document.document_id,
     section_id      |-> SectionId(n),
     chunk_type      |-> "clause",
     tags            |-> document.sections[n].tags,
     source_citation |-> document.title \o <<","," ","S","e","c","t","i","o","n"," ">>
                         \o SectionId(n),
     heading_number  |-> section_heading(document.sections[n]).value.heading_number,
     heading_level   |-> section_heading(document.sections[n]).value.heading_level,
     parent_heading_number |->
         section_heading(document.sections[n]).value.parent_heading_number]

\* C24: all clause chunks of one section carry the same provenance, the
\* section's: document id, section id, chunk type clause, the section's tags,
\* the citation "<title>, Section <id>" and the section's heading number, level
\* and parent; their chunk indexes count from 0.
C24_SameProvenance ==
    \A n \in Chunked :
        \A k \in 1..log[n].nchunks :
            /\ Provenance(SectionChunks(n)[k]) = SectionProvenance(n)
            /\ SectionChunks(n)[k].chunk_index = k - 1

\* a section whose heading anchor comes from its text was split into two chunks
\* of different content
C24_Witness ==
    /\ ck_pc = "done"
    /\ Len(document.sections) = 1
    /\ SectionText(1) = T_long_headed
    /\ log[1].nchunks = 2
    /\ SectionChunks(1)[1].heading_number = Some(<<"7",".","1">>)
    /\ SectionChunks(1)[1].content # SectionChunks(1)[2].content

-----------------------------------------------------------------------------
(* Properties of concurrent ingestions                                     *)

\* what ingest_document leaves in an empty output directory for a path when it
\* runs alone
OutputAlone(file_path) ==
    IF OutcomeOf(file_path).raised = "no"
    THEN save_document({}, OutcomeOf(file_path).metadata[1])
    ELSE {}

\* C25: two concurrent ingestions of distinct files on one output directory, in
\* any interleaving of their steps, each end as the ingestion of their file
\* alone ends: with the same returned document or exception, and with the same
\* output file in the directory.
C25_ConcurrentAsAlone ==
    (ing_pc = "concurrent" /\ \A t \in DOMAIN workers : workers[t].pc \in {"returned", "raised"})
        => \A t \in DOMAIN workers :
               /\ workers[t].raised = OutcomeOf(file_paths[t]).raised
               /\ workers[t].document = OutcomeOf(file_paths[t]).metadata
               /\ OutputAlone(file_paths[t]) \subseteq output_dir

-----------------------------------------------------------------------------
(* Properties of the indexing                                              *)

OneRowPerKey(table) == \A r, o \in table : KeyOf(r) = KeyOf(o) => r = o

\* C26: once index_chunks has run _ensure_optional_schema, the table holds at
\* most one row per (document id, section id, content hash), whatever the calls
\* and the rows they found; and a call with the arguments of the call before it
\* leaves the rows that call left.
C26_IdempotentUpsert ==
    /\ (idx_pc = "insert" \/ idx_log # <<>>) => OneRowPerKey(clauses)
    /\ \A n \in 2..Len(idx_log) :
           idx_log[n].args = idx_log[n - 1].args
               => idx_log[n].clauses = idx_log[n - 1].clauses

\* two calls with the same arguments, two chunks of one key among them, on a
\* table that had rows (two of that key) before the first call
C26_Witness ==
    /\ Len(idx_log) = 2
    /\ idx_log[1].args = idx_log[2].args
    /\ \E j, k \in DOMAIN idx_args.chunks :
           /\ j < k
           /\ KeyOf(index_row(idx_args.document, idx_args.chunks[j], idx_args.embeddings, j))
                  = KeyOf(index_row(idx_args.document, idx_args.chunks[k], idx_args.embeddings, k))
           /\ idx_args.chunks[j].tags # idx_args.chunks[k].tags
    /\ \E r \in clauses : r.seq = Nothing /\ r.tags = <<"indemnification">>

-----------------------------------------------------------------------------
(* Properties of the sliding-window split                                  *)

\* the text of a window: text[start:end] ends where the text ends
Extent(text, w) == [from |-> w.start, to |-> Min(w.end, Len(text))]

\* the characters that the windows k and k + 1 share
Shared(text, ws, k) == Extent(text, ws[k]).to - Extent(text, ws[k + 1]).from

\* every start is 801 to 900 characters after the start before it, and the
\* loop runs no longer than that allows
StartsAdvance(text, ws) ==
    /\ \A k \in 1..(Len(ws) - 1) :
           /\ ws[k + 1].start - ws[k].start >= max_chunk_size - chunk_overlap - sentence_lookback + 1
           /\ ws[k + 1].start - ws[k].start <= max_chunk_size - chunk_overlap
    /\ (Len(ws) - 1) * (max_chunk_size - chunk_overlap - sentence_lookback + 1) < Len(text)

\* the loop of the split advances and ends: in every split, running or finished
SplitTerminates ==
    /\ ck_pc = "split" => StartsAdvance(SectionText(sec_i), wins)
    /\ \A n \in Chunked : log[n].windows # <<>> =>
           /\ StartsAdvance(SectionText(n), log[n].windows)
           /\ log[n].windows[Len(log[n].windows)].end - chunk_overlap >= Len(SectionText(n))

\* C27: in every split the starts advance by 801 to 900 characters, every
\* window that has a successor shares exactly 100 characters with it, and the
\* loop ends when the start reaches or passes the end of the text.
C27_AdvanceAndOverlap ==
    /\ SplitTerminates
    /\ \A n \in Chunked :
           \A k \in 1..(Len(log[n].windows) - 1) :
               Shared(SectionText(n), log[n].windows, k) = chunk_overlap

\* the offsets of the periods in the final 100 characters of the untrimmed
\* window that starts at `from`
FinalPeriods(text, from) ==
    {o \in (from + max_chunk_size - sentence_lookback)..(from + max_chunk_size - 1) :
        o < Len(text) /\ text[o + 1] = "."}

\* the end of the window as the claim states it
StatedEnd(text, from) ==
    IF from + max_chunk_size < Len(text) /\ FinalPeriods(text, from) # {}
    THEN 1 + CHOOSE o \in FinalPeriods(text, from) : \A p \in FinalPeriods(text, from) : p <= o
    ELSE from + max_chunk_size

\* C28: a window whose hard edge start + 1000 is before the end of the text ends
\* right after the last period of its final 100 characters, or at the hard edge
\* when these hold no period, wherever else the text has periods; a window whose
\* hard edge reaches the end of the text ends at the hard edge.
C28_TrimToLastPeriod ==
    /\ ck_pc = "split" =>
           \A k \in 1..Len(wins) :
               wins[k].end = StatedEnd(SectionText(sec_i), wins[k].start)
    /\ \A n \in Chunked :
           \A k \in 1..Len(log[n].windows) :
               log[n].windows[k].end = StatedEnd(SectionText(n), log[n].windows[k].start)

\* a finished split of a text with periods all over: the first window is cut
\* back to a period of its final 100 characters, the last one has periods there
\* and keeps its hard edge
C28_Witness ==
    \E n \in Chunked :
        LET ws == log[n].windows
            text == SectionText(n)
        IN  /\ Len(ws) >= 2
            /\ text[4] = "."
            /\ ws[1].end = 998
            /\ ws[Len(ws)].end = ws[Len(ws)].start + max_chunk_size
            /\ \E o \in (Len(text) - sentence_lookback)..(Len(text) - 1) : text[o + 1] = "."

\* C29: in every split, a chunk is cut from a window that goes beyond the
\* window before it, and no chunk is cut after a window that reached the end of
\* the text.
C29_NoChunkInsidePreceding ==
    \A n \in Chunked :
        \A k \in 1..(Len(log[n].windows) - 1) :
            log[n].windows[k + 1].kept =>
                /\ Extent(SectionText(n), log[n].windows[k + 1]).to
                       > Extent(SectionText(n), log[n].windows[k]).to
                /\ log[n].windows[k].end < Len(SectionText(n))

-----------------------------------------------------------------------------
(* Properties of the terminology rewriting                                 *)

\* C30: _normalize_terminology leaves a text that it has produced as it is:
\* normalizing the sections of a normalized document again changes no text.
C30_TerminologyIdempotent ==
    seg_pc = "normalized" =>
        \A n \in 1..Len(sections) :
            normalize_terminology(sections[n].text) = sections[n].text

====
